---- MODULE Spec2Model ----
(***************************************************************************)
(* A model of the planner's core subsystems:                               *)
(*   - the Availability Engine (CalendarService.within_working_hours and   *)
(*     CalendarService.find_available_slots), a pure function of the       *)
(*     request and of the busy list that fetch_busy returns;               *)
(*   - the Tool-Calling Orchestrator (AIOrchestrator.process_message and   *)
(*     _continue_with_function_results) with the context builder and the   *)
(*     streaming client it drives, and process_message_sync;               *)
(*   - the tool dispatcher execute_function, two requests that share one   *)
(*     calendar, and the knowledge base with the system prompt built from  *)
(*     it;                                                                 *)
(*   - the desktop planner of src/app.py: its dialog machine, its parsers  *)
(*     and its own find_first_slot.                                        *)
(* Time is counted in minutes from 00:00 of the day of the search floor    *)
(* (day 0); a timestamp of day d, hour h, minute m is d*1440 + h*60 + m.   *)
(***************************************************************************)
EXTENDS Integers, Sequences, FiniteSets, TLC

VARIABLES
    req,      \* the arguments of one find_available_slots call and the busy list
    slots,    \* the list find_available_slots returned
    apc,      \* "call" before the call, "done" after it, "first" after find_first_slot
    first_slot,  \* the pair find_first_slot returned
    \* ---- the persistent store
    db_messages,           \* the conversation's persisted turns, oldest first
    instructions,          \* the active AIInstruction rows, in insertion order
    title,                 \* the conversation's title, or None
    todos,                 \* the TodoItem rows
    pending,               \* the TodoItem rows the session changed and did not commit
    \* ---- one run of AIOrchestrator.process_message
    opc,                   \* "idle", "streaming", "finalize", "done"
    messages,              \* the list handed to stream_chat (mutated in place)
    full_response,         \* the accumulated text, as a list of fragments
    function_results,      \* process_message's function_results
    new_function_results,  \* the innermost continuation's new_function_results
    in_continue,           \* whether a _continue_with_function_results frame runs
    depth,                 \* the depth argument of the innermost continuation
    stream,                \* what the current stream_chat generator has yielded
    events,                \* the events yielded to the caller, in order
    \* ---- history of the run (read by the properties only)
    calls,                 \* one entry per stream_chat call
    executed,              \* one entry per execute_function call
    outcomes,              \* how each stream ended: a finish reason or "error"
    continuing,            \* the Continuing transitions made
    errors,                \* the error chunks the client reported
    title_calls,           \* whether each generate_conversation_title call succeeded
    \* ---- execute_function called on its own
    dispatched,            \* one entry per call: the input, the result, the store
    \* ---- two requests on one calendar
    calendar,              \* the events of the writable calendar, in insertion order
    rpc,                   \* per request: "start", "offered", "scheduled"
    offered,               \* per request: what check_availability saw and returned
    booked,                \* per request: the schedule_task call and its result
    \* ---- the knowledge base and the system prompt built from it
    kb,                    \* the Knowledge, AIInstruction, Calendar and SchedulingRule rows
    today_events,          \* what get_day_schedule(today) does: events, or None for a failure
    prompt,                \* the parts of the last system prompt built, or None
    klast,                 \* the last knowledge operation and what it returned, or None
    \* ---- the desktop planner (src/app.py)
    app_clock,             \* what datetime.now reads during the dialog
    app_busy,              \* the busy intervals of the calendars that are read only
    app_state,             \* PlannerApp.state: the stage and the task
    app_chat,              \* the last message add_msg wrote for the assistant
    app_events             \* the events create_event inserted in the project calendar

avars == <<req, slots, apc, first_slot>>

store_vars == <<db_messages, instructions, title, todos, pending>>

run_vars == <<opc, messages, full_response, function_results, new_function_results,
              in_continue, depth, stream, events>>

hist_vars == <<calls, executed, outcomes, continuing, errors, title_calls>>

ovars == <<store_vars, run_vars, hist_vars>>

cvars == <<calendar, rpc, offered, booked>>

kvars == <<kb, today_events, prompt, klast>>

lvars == <<app_clock, app_busy, app_state, app_chat, app_events>>

dvars == <<dispatched, cvars, kvars, lvars>>

vars == <<avars, ovars, dvars>>

----------------------------------------------------------------------------
(* Time helpers (datetime arithmetic of the source).                       *)

MinutesPerDay == 24 * 60

At(day, hour, minute) == day * MinutesPerDay + hour * 60 + minute

DateOf(t) == t \div MinutesPerDay

Max(a, b) == IF a >= b THEN a ELSE b

Min(a, b) == IF a <= b THEN a ELSE b

\* Optional[...] values: None, or a one-element tuple holding the value.
None == <<>>

Some(x) == <<x>>

----------------------------------------------------------------------------
(* Configuration.                                                          *)

WORK_START_HOUR == 9

WORK_END_HOUR == 18

EXTENDED_START_HOUR == 8

EXTENDED_END_HOUR == 20

\* within_working_hours' default for workdays, which find_available_slots
\* never overrides.
DefaultWorkdays == {0, 1, 2, 3, 4, 5, 6}

----------------------------------------------------------------------------
(* Bounds of the model.                                                    *)

MaxBusy == 2

MaxDaysAhead == 1

MaxNumSlots == 2

----------------------------------------------------------------------------
(* The Availability Engine.                                                *)

\* A check that lets a window of no length through.
EmptyWindowStrict(start, end) == start > end

\* within_working_hours: `if start >= end: return None`.
EmptyWindow(start, end) == start >= end

\* CalendarService.within_working_hours: the window of `day`, or None.
within_working_hours(day, allow_outside, earliest_hour, latest_hour, deadline, weekday0) ==
    LET weekday == (weekday0 + day) % 7
        base_start == IF allow_outside THEN EXTENDED_START_HOUR ELSE WORK_START_HOUR
        base_end == IF allow_outside THEN EXTENDED_END_HOUR ELSE WORK_END_HOUR
        start_hour == IF earliest_hour # None
                      THEN Max(base_start, earliest_hour[1]) ELSE base_start
        end_hour == IF latest_hour # None
                    THEN Min(base_end, latest_hour[1]) ELSE base_end
        start == At(day, start_hour, 0)
        end0 == At(day, end_hour, 0)
        end == IF deadline # None /\ day = DateOf(deadline[1])
               THEN Min(end0, deadline[1]) ELSE end0
    IN  IF ~allow_outside /\ weekday \notin DefaultWorkdays THEN None
        ELSE IF EmptyWindow(start, end) THEN None
        ELSE Some(<<start, end>>)

\* The filter of find_available_slots: the busy intervals that meet
\* [day_start, day_end), clipped to it, in the order of the busy list.
RECURSIVE ClipBusy(_, _, _)
ClipBusy(b, day_start, day_end) ==
    IF b = <<>> THEN <<>>
    ELSE LET bstart == Head(b)[1]
             bend == Head(b)[2]
             rest == ClipBusy(Tail(b), day_start, day_end)
         IN  IF bend <= day_start \/ bstart >= day_end THEN rest
             ELSE <<(<<Max(bstart, day_start), Min(bend, day_end)>>)>> \o rest

\* list.sort(key=lambda x: x[0]): a stable sort by start.
RECURSIVE InsertByStart(_, _)
InsertByStart(sorted, x) ==
    IF sorted = <<>> THEN <<x>>
    ELSE IF Head(sorted)[1] <= x[1]
         THEN <<Head(sorted)>> \o InsertByStart(Tail(sorted), x)
         ELSE <<x>> \o sorted

RECURSIVE SortByStart(_)
SortByStart(s) ==
    IF s = <<>> THEN <<>>
    ELSE InsertByStart(SortByStart(SubSeq(s, 1, Len(s) - 1)), s[Len(s)])

day_busy_of(b, day_start, day_end) == SortByStart(ClipBusy(b, day_start, day_end))

\* A sweep that moves the cursor to the end of the last busy interval seen,
\* without the max.
AdvanceCursorNoMax(cursor, bend) == bend

\* A sweep whose cursor never moves.
AdvanceCursorStay(cursor, bend) == cursor

\* The cursor after one busy interval of the sweep.
AdvanceCursor(cursor, bend) == Max(cursor, bend)

\* A gap test that accepts any non-empty gap, whatever the duration.
GapFitsAnyGap(gap_end, cursor, duration) == gap_end - cursor > 0

\* The gap test of the sweep, before a busy interval and at the window's tail.
GapFits(gap_end, cursor, duration) == gap_end - cursor >= duration

\* The return test after an append.
Enough(found, num_slots) == Len(found) >= num_slots

\* The sweep over one day's busy list.  The result is the slot list, the
\* cursor, and whether the function returned inside the loop.
RECURSIVE Sweep(_, _, _, _, _)
Sweep(day_busy, cursor, duration, found, num_slots) ==
    IF day_busy = <<>> THEN [found |-> found, cursor |-> cursor, returned |-> FALSE]
    ELSE LET bstart == Head(day_busy)[1]
             bend == Head(day_busy)[2]
             fits == GapFits(bstart, cursor, duration)
             found1 == IF fits THEN Append(found, <<cursor, cursor + duration>>)
                       ELSE found
         IN  IF fits /\ Enough(found1, num_slots)
             THEN [found |-> found1, cursor |-> cursor, returned |-> TRUE]
             ELSE Sweep(Tail(day_busy), AdvanceCursor(cursor, bend), duration,
                        found1, num_slots)

\* A first day that starts at the start of its window.
first_day_start_unclamped(window_start, start_at) == window_start

\* find_available_slots on the day of start_at: day_start = max(day_start,
\* start_at).
first_day_start(window_start, start_at) == Max(window_start, start_at)

\* The window of `day` as find_available_slots uses it: within_working_hours
\* with the start of the first day raised to start_at; None when the day is
\* skipped.
day_window(r, day) ==
    LET today == DateOf(r.start_at)
        window == within_working_hours(day, r.allow_outside, r.earliest_hour,
                                       r.latest_hour, r.deadline, r.weekday0 - today)
    IN  IF window = None THEN None
        ELSE LET day_start == IF day = today
                              THEN first_day_start(window[1][1], r.start_at)
                              ELSE window[1][1]
                 day_end == window[1][2]
             IN  IF day_start >= day_end THEN None ELSE Some(<<day_start, day_end>>)

\* A date range that the deadline does not cap.
end_date_of_uncapped(r) == DateOf(r.start_at) + r.days_ahead

end_date_of(r) ==
    LET today == DateOf(r.start_at)
    IN  IF r.deadline # None THEN Min(today + r.days_ahead, DateOf(r.deadline[1]))
        ELSE today + r.days_ahead

\* The loop over the days of find_available_slots, from day_offset on.
RECURSIVE DayLoop(_, _, _)
DayLoop(r, day_offset, found) ==
    LET today == DateOf(r.start_at)
        day == today + day_offset
    IN  IF day_offset > r.days_ahead \/ day > end_date_of(r) THEN found
        ELSE LET w == day_window(r, day)
             IN  IF w = None THEN DayLoop(r, day_offset + 1, found)
                 ELSE LET day_start == w[1][1]
                          day_end == w[1][2]
                          duration == r.duration_minutes
                          sw == Sweep(day_busy_of(r.busy, day_start, day_end),
                                      day_start, duration, found, r.num_slots)
                          tail == ~sw.returned /\ GapFits(day_end, sw.cursor, duration)
                          found2 == IF tail
                                    THEN Append(sw.found,
                                                <<sw.cursor, sw.cursor + duration>>)
                                    ELSE sw.found
                      IN  IF sw.returned THEN sw.found
                          ELSE IF tail /\ Enough(found2, r.num_slots) THEN found2
                          ELSE DayLoop(r, day_offset + 1, found2)

find_available_slots(r) == DayLoop(r, 0, <<>>)

\* execute_function, check_availability: the success flag of the result for
\* the slot list find_available_slots returned.
check_availability_success(found) == found # <<>>

----------------------------------------------------------------------------
(* The inputs of the engine.                                               *)

\* Busy intervals as fetch_busy delivers them: start < end, any overlap.
BusyCandidates ==
    { <<At(0, 9, 0), At(0, 10, 30)>>,      \* covers the start of the window
      <<At(0, 10, 0), At(0, 12, 0)>>,      \* overlaps the first
      <<At(0, 11, 0), At(0, 11, 30)>>,     \* nested in the second
      <<At(0, 12, 0), At(0, 13, 0)>>,      \* adjacent to the second
      <<At(0, 17, 0), At(1, 10, 0)>>,      \* spans midnight: clipped on both days
      <<At(1, 12, 0), At(1, 13, 0)>> }

\* fetch_busy sorts by start.
BusyLists ==
    { b \in UNION { [1..n -> BusyCandidates] : n \in 0..MaxBusy } :
        \A i \in 1..(Len(b) - 1) : b[i][1] <= b[i + 1][1] }

Durations == {-30, 0, 30, 90}

StartAts == {At(0, 9, 30), At(0, 18, 45), At(1, 10, 0)}

EarliestHours == {None, Some(10), Some(13)}

LatestHours == {None, Some(10), Some(12)}

Deadlines == {None, Some(At(0, 12, 0)), Some(At(1, 9, 30))}

Weekdays0 == {4, 5}

Requests ==
    [ busy : BusyLists,
      duration_minutes : Durations,
      start_at : StartAts,
      days_ahead : 0..MaxDaysAhead,
      allow_outside : BOOLEAN,
      earliest_hour : EarliestHours,
      latest_hour : LatestHours,
      deadline : Deadlines,
      num_slots : 0..MaxNumSlots,
      weekday0 : Weekdays0 ]

AInit ==
    /\ req \in Requests
    /\ slots = <<>>
    /\ first_slot = <<>>
    /\ apc = "call"

FindAvailableSlots ==
    /\ apc = "call"
    /\ slots' = find_available_slots(req)
    /\ apc' = "done"
    /\ UNCHANGED <<req, first_slot>>

\* The orchestrator at rest, for the specifications that do not run it.
OIdle ==
    /\ db_messages = <<>> /\ instructions = <<>> /\ title = None /\ todos = <<>>
    /\ pending = <<>>
    /\ opc = "idle" /\ messages = <<>> /\ full_response = <<>>
    /\ function_results = <<>> /\ new_function_results = <<>>
    /\ in_continue = FALSE /\ depth = 0 /\ stream = <<>> /\ events = <<>>
    /\ calls = <<>> /\ executed = <<>> /\ outcomes = <<>>
    /\ continuing = 0 /\ errors = 0 /\ title_calls = <<>>

\* No request on the shared calendar.
CIdle == calendar = <<>> /\ rpc = <<>> /\ offered = <<>> /\ booked = <<>>

\* No use of the knowledge base.
KIdle == kb = <<>> /\ today_events = <<>> /\ prompt = <<>> /\ klast = <<>>

\* No call of execute_function on its own.
\* The desktop planner not started.
LIdle ==
    /\ app_clock = <<>> /\ app_busy = <<>> /\ app_state = <<>>
    /\ app_chat = <<>> /\ app_events = <<>>

DIdle == dispatched = <<>> /\ CIdle /\ KIdle /\ LIdle

SlotInit == AInit /\ OIdle /\ DIdle

SlotNext == FindAvailableSlots /\ UNCHANGED <<ovars, dvars>>

SlotSpec == SlotInit /\ [][SlotNext]_vars

----------------------------------------------------------------------------
(* Properties of the Availability Engine.                                  *)

SlotSet == { slots[i] : i \in 1..Len(slots) }

BusySet == { req.busy[i] : i \in 1..Len(req.busy) }

Overlapping(b) == \E i, j \in 1..Len(b) : i < j /\ b[j][1] < b[i][2]

\* C1: for every busy list, overlapping intervals included, and every
\* duration D > 0, no returned slot [s, e) intersects a busy interval
\* [b1, b2): e <= b1 or s >= b2.
C1_SlotsAvoidBusy ==
    (apc = "done" /\ req.duration_minutes > 0) =>
        \A s \in SlotSet : \A b \in BusySet : s[2] <= b[1] \/ s[1] >= b[2]

\* A call with overlapping busy intervals on the searched day that returned
\* a slot after them.
C1_Witness ==
    /\ apc = "done" /\ req.duration_minutes > 0
    /\ Overlapping(req.busy)
    /\ \E s \in SlotSet : \E b \in BusySet : s[1] >= b[2] /\ DateOf(s[1]) = DateOf(b[1])

\* C2: every returned slot has end - start equal to the requested duration
\* and lies inside the window within_working_hours computes for its day,
\* the first day's window start raised to the search floor.
C2_SlotsExactAndInWindow ==
    apc = "done" =>
        \A s \in SlotSet :
            /\ s[2] - s[1] = req.duration_minutes
            /\ LET w == day_window(req, DateOf(s[1]))
               IN  w # None /\ w[1][1] <= s[1] /\ s[2] <= w[1][2]

\* A call with a positive duration whose first slot starts at the search
\* floor, later than the start within_working_hours gives the day.
C2_Witness ==
    /\ apc = "done" /\ req.duration_minutes > 0 /\ slots # <<>>
    /\ slots[1][1] = req.start_at
    /\ LET w == within_working_hours(DateOf(req.start_at), req.allow_outside,
                                     req.earliest_hour, req.latest_hour,
                                     req.deadline, req.weekday0)
       IN  w # None /\ w[1][1] < req.start_at

\* The weekday (Monday = 0) of the day of timestamp t; req.weekday0 is the
\* weekday of the day of the search floor.
WeekdayOf(t) == (req.weekday0 + DateOf(t) - DateOf(req.start_at)) % 7

\* C11: a request with duration_minutes <= 0 is rejected: find_available_slots
\* returns no slot and check_availability yields a failed result.
C11_NonPositiveDurationRejected ==
    (apc = "done" /\ req.duration_minutes <= 0) =>
        (slots = <<>> /\ ~check_availability_success(slots))

\* C12: when allow_outside is false, no returned slot lies on a Saturday or a
\* Sunday.
C12_NoWeekendSlots ==
    (apc = "done" /\ req.duration_minutes > 0 /\ ~req.allow_outside) =>
        \A s \in SlotSet : WeekdayOf(s[1]) \notin {5, 6}

\* C13: no returned slot ends (or starts) after the deadline, and a deadline
\* earlier than the search floor yields the empty list.
C13_DeadlineRespected ==
    (apc = "done" /\ req.deadline # None) =>
        /\ \A s \in SlotSet : s[2] <= req.deadline[1] /\ s[1] <= req.deadline[1]
        /\ req.deadline[1] < req.start_at => slots = <<>>

\* A call whose deadline caps the window of its day: a slot ends exactly at
\* the deadline, hours before the window would otherwise end, and the range
\* of days asked for goes beyond the deadline's day.
C13_Witness ==
    /\ apc = "done" /\ req.duration_minutes > 0 /\ req.deadline # None
    /\ req.latest_hour = None
    /\ DateOf(req.start_at) + req.days_ahead > DateOf(req.deadline[1])
    /\ \E s \in SlotSet : s[2] = req.deadline[1]

\* C14: for every busy list and every duration D > 0, the returned list is in
\* strictly increasing order of start and its slots do not overlap pairwise.
C14_OrderedDisjoint ==
    (apc = "done" /\ req.duration_minutes > 0) =>
        \A i, j \in 1..Len(slots) :
            i < j => (slots[i][1] < slots[j][1] /\ slots[i][2] <= slots[j][1])

\* A call over overlapping busy intervals that returned two slots of one day,
\* one before the busy intervals and one after them.
C14_Witness ==
    /\ apc = "done" /\ req.duration_minutes > 0 /\ Overlapping(req.busy)
    /\ Len(slots) >= 2
    /\ DateOf(slots[1][1]) = DateOf(slots[2][1])
    /\ \E b \in BusySet : slots[1][2] <= b[1] /\ b[2] <= slots[2][1]

\* C15: the returned list has at most num_slots slots, for every num_slots.
C15_AtMostNumSlots ==
    (apc = "done" /\ req.duration_minutes > 0) => Len(slots) <= req.num_slots

\* The merged form of a busy list sorted by start: intervals that overlap or
\* touch are joined.
RECURSIVE MergeInto(_, _)
MergeInto(merged, b) ==
    IF b = <<>> THEN merged
    ELSE LET x == Head(b)
             n == Len(merged)
         IN  IF n > 0 /\ x[1] <= merged[n][2]
             THEN MergeInto([merged EXCEPT ![n] = <<merged[n][1], Max(merged[n][2], x[2])>>],
                            Tail(b))
             ELSE MergeInto(Append(merged, x), Tail(b))

Merged(b) == MergeInto(<<>>, b)

\* C16: on every busy list of valid intervals, find_available_slots returns
\* the list it returns on the merged form of the busy list.
C16_SweepEqualsMerged ==
    apc = "done" => slots = find_available_slots([req EXCEPT !.busy = Merged(req.busy)])

\* The hours of the work window after the clamps by earliest_hour and
\* latest_hour.
ClampedStartHour(r) ==
    LET base == IF r.allow_outside THEN EXTENDED_START_HOUR ELSE WORK_START_HOUR
    IN  IF r.earliest_hour # None /\ r.earliest_hour[1] > base
        THEN r.earliest_hour[1] ELSE base

ClampedEndHour(r) ==
    LET base == IF r.allow_outside THEN EXTENDED_END_HOUR ELSE WORK_END_HOUR
    IN  IF r.latest_hour # None /\ r.latest_hour[1] < base
        THEN r.latest_hour[1] ELSE base

\* C29: when the earliest hour is greater than or equal to the latest hour
\* after the clamps, no day has a work window and no slot is returned, for
\* every combination of allow_outside, earliest_hour and latest_hour.
C29_CrossedHoursNoWindow ==
    (apc = "done" /\ ClampedStartHour(req) >= ClampedEndHour(req)) =>
        /\ \A day \in DateOf(req.start_at)..(DateOf(req.start_at) + req.days_ahead) :
              within_working_hours(day, req.allow_outside, req.earliest_hour,
                                   req.latest_hour, req.deadline,
                                   req.weekday0 - DateOf(req.start_at)) = None
        /\ slots = <<>>

\* A search over two free days with extended hours whose earliest hour is
\* past its latest hour.
C29_Witness ==
    /\ apc = "done" /\ req.allow_outside /\ req.busy = <<>>
    /\ req.duration_minutes > 0 /\ req.num_slots > 0 /\ req.days_ahead = 1
    /\ req.deadline = None /\ req.start_at = At(0, 9, 30)
    /\ req.earliest_hour = Some(13) /\ req.latest_hour = Some(12)
    /\ slots = <<>>

\* C30: no slot returned by find_available_slots starts before the search
\* floor start_at: the window of the first day starts at
\* max(windowStart, start_at) and no earlier day is searched.
C30_NoSlotBeforeFloor ==
    apc = "done" =>
        /\ \A s \in SlotSet : s[1] >= req.start_at
        /\ day_window(req, DateOf(req.start_at)) # None =>
              day_window(req, DateOf(req.start_at))[1][1] =
                  Max(At(DateOf(req.start_at), ClampedStartHour(req), 0), req.start_at)

\* A search whose floor lies inside the window of the first day, with a
\* busy interval that starts before the floor, and whose first slot starts at
\* the floor.
C30_Witness ==
    /\ apc = "done" /\ req.start_at = At(0, 9, 30) /\ ~req.allow_outside
    /\ req.earliest_hour = None /\ req.duration_minutes > 0
    /\ slots # <<>> /\ slots[1][1] = req.start_at

----------------------------------------------------------------------------
(* The Tool-Calling Orchestrator: bounds and inputs.                       *)

\* Content chunks the model may stream during one request.
MaxChunks == 1

\* Calls of a name that is no tool during one request.
MaxUnknownCalls == 1

\* Tool calls one stream may yield.
MaxCallsPerRound == 2

\* Tool calls one request may execute.
MaxToolCalls == 6

\* Turns persisted before the request, beyond the history window.
MaxPrior == 21

\* _continue_with_function_results: "max 5 function call rounds".
MAX_DEPTH == 5

\* build_messages_for_ai's max_history.
max_history == 20

user_message == "plan my week"

FALLBACK == "I've made several attempts but couldn't complete the task."

Fragments == {"ok"}

\* The tool calls the model may request: a tool that persists an instruction
\* and a name that is no tool.
ToolRequests ==
    { [name |-> "add_instruction",
       arguments |-> [category |-> "style", instruction |-> "be brief"]],
      [name |-> "frobnicate",
       arguments |-> [category |-> "style", instruction |-> "be brief"]] }

FinishReasons == {"stop", "length"}

\* The error_type values stream_chat yields.
CreateErrors == {"rate_limit", "auth_error", "api_error", "unknown"}

StreamErrors == {"stream_error"}

\* The conversation the request is made in: a new one, a short one whose
\* title was never generated, and a long titled one.
Conversations ==
    { [prior |-> 0, title |-> None],
      [prior |-> 1, title |-> None],
      [prior |-> MaxPrior, title |-> Some("Week plan")] }

----------------------------------------------------------------------------
(* Conversions and message shapes.                                         *)

\* json.dumps: the text of a value.
JsonDumps(x) == <<"json", x>>

\* A message's plain text content.
Text(x) == <<"text", x>>

\* One entry of the list handed to the model.
Turn(role, content, tool_calls, tool_call_id) ==
    [role |-> role, content |-> content, tool_calls |-> tool_calls,
     tool_call_id |-> tool_call_id]

\* One event yielded to the caller.  `of` is the id of the tool call the
\* event is about (0 for none); it is bookkeeping, not part of the event.
Ev(type, data, of) == [type |-> type, data |-> data, of |-> of]

\* "".join of the fragments of a reply.
Joined(fragments) == <<"joined", fragments>>

\* The turns persisted before the request: distinct, alternating roles.
PriorTurn(i) ==
    [role |-> IF i % 2 = 1 THEN "user" ELSE "assistant",
     content |-> <<"prior", i>>]

----------------------------------------------------------------------------
(* Memory service and context builder.                                     *)

\* MemoryService.save_message.
save_message(db, role, content) == Append(db, [role |-> role, content |-> content])

\* MemoryService.get_recent_messages: the last `limit` turns, oldest first.
get_recent_messages(db, limit) ==
    SubSeq(db, Max(1, Len(db) - limit + 1), Len(db))

\* ContextBuilder.build_system_prompt: the blocks rendered from the store.
build_system_prompt(instrs) == <<"system_prompt", instrs>>

\* ContextBuilder.build_messages_for_ai.
build_messages_for_ai(db, instrs, user_content) ==
    LET history == get_recent_messages(db, max_history)
    IN  <<Turn("system", build_system_prompt(instrs), None, None)>>
        \o [i \in 1..Len(history) |->
               Turn(history[i].role, history[i].content, None, None)]
        \o <<Turn("user", user_content, None, None)>>

----------------------------------------------------------------------------
(* Tool dispatch.                                                          *)

\* AI_FUNCTIONS: the declared schema of the tools of the model, the required
\* fields and the enumerated values.
AI_FUNCTIONS ==
    [ check_availability |-> [required |-> {"duration_minutes"}, enum |-> {}],
      add_instruction |->
          [required |-> {"category", "instruction"},
           enum |-> {<<"category", {"scheduling", "communication", "preferences",
                                    "behavior"}>>}],
      add_todo |-> [required |-> {"title"},
                    enum |-> {<<"priority", {"high", "medium", "low"}>>}],
      update_todo |-> [required |-> {"todo_id"},
                       enum |-> {<<"priority", {"high", "medium", "low"}>>}],
      delete_todo |-> [required |-> {"todo_id"}, enum |-> {}] ]

\* dict.get(key, default).
Get(arguments, key, default) ==
    IF key \in DOMAIN arguments THEN arguments[key] ELSE default

\* str.lower of a text, a text being a list of words.
Lower(text) ==
    [i \in 1..Len(text) |->
        IF text[i] = "Dog" THEN "dog"
        ELSE IF text[i] = "High" THEN "high"
        ELSE IF text[i] = "Tomorrow" THEN "tomorrow"
        ELSE text[i]]

\* Whether `part` occurs in `text` as it is.
Contains(text, part) ==
    \E i \in 0..(Len(text) - Len(part)) : SubSeq(text, i + 1, i + Len(part)) = part

\* column.ilike("%pattern%"): a match of the pattern anywhere, without case.
ILike(text, pattern) == Contains(Lower(text), Lower(pattern))

\* A date argument: a text in ISO format, which fromisoformat parses to a
\* time, or any other text, a list of words.
IsoDate(t) == [iso |-> Some(t), words |-> <<>>]

DateStr(words) == [iso |-> None, words |-> words]

\* datetime.weekday(), Monday = 0; day 0 is a Monday.
weekday(now) == DateOf(now) % 7

\* A "next week" that is the first Monday after today.
next_week_days_first_monday(now) ==
    IF weekday(now) = 0 THEN 7 ELSE (0 - weekday(now)) % 7

\* check_availability and add_todo, "next week":
\* days_ahead = (0 - now.weekday()) % 7 + 7.
next_week_days(now) == ((0 - weekday(now)) % 7) + 7

\* The days list of parse_date_string.
days == <<"monday", "tuesday", "wednesday", "thursday", "friday", "saturday", "sunday">>

\* The way out of parse_date_string: a value, or a NameError.
Parsed(value) == [raised |-> FALSE, value |-> value]

NameError == [raised |-> TRUE, value |-> None]

\* now + timedelta(days) with hour=9, minute=0; `now` is None where the name
\* is not bound in the enclosing scope.
NineOn(now, days_ahead) ==
    IF now = None THEN NameError
    ELSE Parsed(Some(At(DateOf(now[1]) + days_ahead, 9, 0)))

\* The day-name loop of parse_date_string: the first name of `days` that
\* occurs in the text.
DayName(date_lower, now) ==
    LET hits == { i \in 1..Len(days) : Contains(date_lower, <<days[i]>>) }
        i == CHOOSE h \in hits : \A g \in hits : h <= g
    IN  IF hits = {} THEN Parsed(None)
        ELSE IF now = None THEN NameError
        ELSE NineOn(now, IF (i - 1 - weekday(now[1])) % 7 = 0 THEN 7
                         ELSE (i - 1 - weekday(now[1])) % 7)

\* parse_date_string of add_todo.
parse_date_string(date_str, now) ==
    IF date_str.iso = None /\ date_str.words = <<>> THEN Parsed(None)
    ELSE IF date_str.iso # None THEN Parsed(date_str.iso)
    ELSE IF Contains(Lower(date_str.words), <<"today">>) THEN NineOn(now, 0)
    ELSE IF Contains(Lower(date_str.words), <<"tomorrow">>) THEN NineOn(now, 1)
    ELSE IF Contains(Lower(date_str.words), <<"next", "week">>)
    THEN IF now = None THEN NameError
         ELSE NineOn(now, next_week_days(now[1]))
    ELSE DayName(Lower(date_str.words), now)

\* parse_date_string of update_todo, defined again in the branch.
parse_date_string_update(date_str, now) ==
    IF date_str.iso = None /\ date_str.words = <<>> THEN Parsed(None)
    ELSE IF date_str.iso # None THEN Parsed(date_str.iso)
    ELSE IF Contains(Lower(date_str.words), <<"today">>) THEN NineOn(now, 0)
    ELSE IF Contains(Lower(date_str.words), <<"tomorrow">>) THEN NineOn(now, 1)
    ELSE DayName(Lower(date_str.words), now)

\* The text of an exception, as the set of the handler's keywords that occur
\* in it.  str(KeyError(k)) is the quoted key, which holds none of them.
KeyErrorText == {}

\* str(NameError) for a free variable that is not bound holds none of them.
NameErrorText == {}

\* The texts of the failures of a collaborator (the Google API, the database).
FaultTexts == { {"quota"}, {"credential"}, {"not found"}, {} }

\* The two ways out of the try block: an exception, or a returned result.
Raise(error_msg, store) == [raised |-> TRUE, error_msg |-> error_msg, store |-> store]

Return(result, store) == [raised |-> FALSE, result |-> result, store |-> store]

\* The calendar and the clock that check_availability sees.
DispatchBusy == <<(<<At(0, 9, 0), At(0, 10, 30)>>)>>

DispatchNow == At(0, 9, 25)

DEFAULT_DAYS_AHEAD == 14

CHECK_NUM_SLOTS == 5

NextId(rows) ==
    IF rows = <<>> THEN 1
    ELSE 1 + CHOOSE m \in { rows[i].id : i \in 1..Len(rows) } :
                 \A i \in 1..Len(rows) : rows[i].id <= m

\* The result check_availability returns for the slots found.
check_availability_result(found) ==
    IF ~check_availability_success(found)
    THEN [success |-> FALSE, message |-> "No available slots found"]
    ELSE [success |-> TRUE, available_slots |-> found]

\* now + timedelta(days) with hour=0, minute=0.
MidnightOn(now, days_ahead) == At(DateOf(now) + days_ahead, 0, 0)

\* check_availability: the search floor for the date preference, or None:
\* today, tomorrow, the weekday names in their order, then "next week".
check_availability_start_at(date_pref, now) ==
    IF date_pref = <<>> THEN None
    ELSE IF Contains(Lower(date_pref), <<"today">>) THEN Some(now)
    ELSE IF Contains(Lower(date_pref), <<"tomorrow">>) THEN Some(MidnightOn(now, 1))
    ELSE IF \E i \in 1..Len(days) : Contains(Lower(date_pref), <<days[i]>>)
    THEN LET i == CHOOSE k \in 1..Len(days) :
                      /\ Contains(Lower(date_pref), <<days[k]>>)
                      /\ \A j \in 1..(k - 1) : ~Contains(Lower(date_pref), <<days[j]>>)
         IN  Some(MidnightOn(now, IF ((i - 1) - weekday(now)) % 7 = 0 THEN 7
                                  ELSE ((i - 1) - weekday(now)) % 7))
    ELSE IF Contains(Lower(date_pref), <<"next", "week">>)
    THEN Some(MidnightOn(now, next_week_days(now)))
    ELSE None

\* check_availability: the hours and the flag it searches with, for the time
\* preference; without one the hours default to the work hours.
check_availability_hours(time_pref, allow_outside) ==
    IF Contains(Lower(time_pref), <<"morning">>)
    THEN [earliest_hour |-> Some(7), latest_hour |-> Some(12),
          allow_outside |-> allow_outside]
    ELSE IF Contains(Lower(time_pref), <<"afternoon">>)
    THEN [earliest_hour |-> Some(12), latest_hour |-> Some(17),
          allow_outside |-> allow_outside]
    ELSE IF Contains(Lower(time_pref), <<"evening">>)
            \/ Contains(Lower(time_pref), <<"after", "work">>)
    THEN [earliest_hour |-> Some(17), latest_hour |-> Some(21), allow_outside |-> TRUE]
    ELSE [earliest_hour |-> Some(WORK_START_HOUR), latest_hour |-> Some(WORK_END_HOUR),
          allow_outside |-> allow_outside]

\* The request check_availability hands to find_available_slots for the
\* search floor and the hours; no floor is now + 5 minutes.
availability_request(busy, now, arguments, start_at, hours) ==
    [busy |-> busy,
     duration_minutes |-> Get(arguments, "duration_minutes", 30),
     start_at |-> IF start_at = None THEN now + 5 ELSE start_at[1],
     days_ahead |-> DEFAULT_DAYS_AHEAD,
     allow_outside |-> hours.allow_outside,
     earliest_hour |-> hours.earliest_hour,
     latest_hour |-> hours.latest_hour,
     deadline |-> None, num_slots |-> CHECK_NUM_SLOTS,
     weekday0 |-> IF start_at = None THEN weekday(now + 5) ELSE weekday(start_at[1])]

\* The branch of check_availability, on the busy list fetch_busy returns at
\* the instant `now`.
check_availability_at(busy, now, arguments, store, fault) ==
    IF fault # None THEN Raise(fault[1], store)
    ELSE Return(check_availability_result(find_available_slots(
                    availability_request(
                        busy, now, arguments,
                        check_availability_start_at(
                            Get(arguments, "date_preference", <<>>), now),
                        check_availability_hours(
                            Get(arguments, "time_preference", <<>>),
                            Get(arguments, "allow_outside_hours", FALSE))))),
                store)

\* check_availability on the calendar and at the clock of the lone calls.
check_availability(arguments, store, fault) ==
    check_availability_at(DispatchBusy, DispatchNow, arguments, store, fault)

\* The TodoItem rows as the session holds them: a row it changed without a
\* commit stands for the stored one.
SessionTodos(store) ==
    [i \in 1..Len(store.todos) |->
        IF \E k \in 1..Len(store.pending) : store.pending[k].id = store.todos[i].id
        THEN store.pending[CHOOSE k \in 1..Len(store.pending) :
                               store.pending[k].id = store.todos[i].id]
        ELSE store.todos[i]]

\* db.commit(): the flush writes every row the session changed.
Commit(store) == [store EXCEPT !.todos = SessionTodos(store), !.pending = <<>>]

\* The session after the assignment of `row` to a TodoItem, without commit.
Assigned(store, row) ==
    [store EXCEPT !.pending =
        SelectSeq(@, LAMBDA r : r.id # row.id) \o <<row>>]

\* The branch of add_instruction, KnowledgeService.add_instruction included.
add_instruction(arguments, store, fault) ==
    IF "category" \notin DOMAIN arguments \/ "instruction" \notin DOMAIN arguments
    THEN Raise(KeyErrorText, store)
    ELSE IF fault # None THEN Raise(fault[1], store)
    ELSE LET row == [category |-> arguments.category,
                     instruction |-> arguments.instruction,
                     source |-> "ai_learned"]
         IN  Return([success |-> TRUE,
                     message |-> <<"Added instruction", arguments.instruction>>,
                     instruction_id |-> Len(store.instructions) + 1],
                    Commit([store EXCEPT !.instructions = Append(@, row)]))

\* The branch of add_todo.
add_todo_at(arguments, store, fault, now) ==
    IF "title" \notin DOMAIN arguments THEN Raise(KeyErrorText, store)
    ELSE IF fault # None THEN Raise(fault[1], store)
    ELSE LET todo == [id |-> NextId(store.todos), title |-> arguments.title,
                      priority |-> Get(arguments, "priority", "medium"),
                      start_date |->
                          parse_date_string(Get(arguments, "start_date", DateStr(<<>>)),
                                            Some(now)).value,
                      due_date |->
                          parse_date_string(Get(arguments, "due_date", DateStr(<<>>)),
                                            Some(now)).value]
         IN  Return([success |-> TRUE, message |-> <<"Added", arguments.title>>,
                     todo_id |-> todo.id],
                    Commit([store EXCEPT !.todos = Append(@, todo)]))

\* add_todo at the clock of the lone calls.
add_todo(arguments, store, fault) == add_todo_at(arguments, store, fault, DispatchNow)

\* The name `now` as the branch of update_todo sees it: execute_function
\* binds it in the branches of check_availability and add_todo only.
now_in_update_todo == None

\* The row after the assignments of update_todo.
UpdatedTodo(todo, arguments, now) ==
    [todo EXCEPT
        !.title = Get(arguments, "title", @),
        !.priority = Get(arguments, "priority", @),
        !.start_date = IF "start_date" \in DOMAIN arguments
                       THEN parse_date_string_update(arguments.start_date, now).value
                       ELSE @,
        !.due_date = IF "due_date" \in DOMAIN arguments
                     THEN parse_date_string_update(arguments.due_date, now).value
                     ELSE @]

\* The row after the assignments update_todo makes before parse_date_string
\* raises: title and priority, and start_date when it is due_date that
\* raises.
PartlyUpdatedTodo(todo, arguments, now) ==
    [todo EXCEPT
        !.title = Get(arguments, "title", @),
        !.priority = Get(arguments, "priority", @),
        !.start_date = IF "start_date" \in DOMAIN arguments
                          /\ ~parse_date_string_update(arguments.start_date, now).raised
                       THEN parse_date_string_update(arguments.start_date, now).value
                       ELSE @]

\* The row of the session with the id.
SessionTodo(store, todo_id) ==
    SessionTodos(store)[CHOOSE i \in 1..Len(store.todos) : store.todos[i].id = todo_id]

\* The branch of update_todo.
update_todo(arguments, store, fault) ==
    IF "todo_id" \notin DOMAIN arguments THEN Raise(KeyErrorText, store)
    ELSE IF \A i \in 1..Len(store.todos) : store.todos[i].id # arguments.todo_id
    THEN Return([success |-> FALSE,
                 message |-> <<"Todo not found", arguments.todo_id>>], store)
    ELSE IF \E f \in {"start_date", "due_date"} :
                /\ f \in DOMAIN arguments
                /\ parse_date_string_update(arguments[f], now_in_update_todo).raised
    THEN Raise(NameErrorText,
               Assigned(store,
                        PartlyUpdatedTodo(SessionTodo(store, arguments.todo_id),
                                          arguments, now_in_update_todo)))
    ELSE IF fault # None THEN Raise(fault[1], store)
    ELSE Return([success |-> TRUE, message |-> <<"Updated todo", arguments.todo_id>>],
                Commit(Assigned(store,
                                UpdatedTodo(SessionTodo(store, arguments.todo_id),
                                            arguments, now_in_update_todo))))

\* The branch of delete_todo.
delete_todo(arguments, store, fault) ==
    IF "todo_id" \notin DOMAIN arguments THEN Raise(KeyErrorText, store)
    ELSE LET todo_id == arguments.todo_id
             kept == SelectSeq(store.todos, LAMBDA t : t.id # todo_id)
         IN  IF kept = store.todos
             THEN Return([success |-> FALSE, message |-> <<"Todo not found", todo_id>>],
                         store)
             ELSE IF fault # None THEN Raise(fault[1], store)
             ELSE Return([success |-> TRUE, message |-> "Deleted todo"],
                         Commit([store EXCEPT !.todos = kept]))

\* An else branch that reports success for a name that is no tool.
UnknownFunctionAccepted(function_name) ==
    [success |-> TRUE, message |-> <<"Unknown function", function_name>>]

\* The else branch: the name is no tool.
UnknownFunction(function_name) ==
    [success |-> FALSE, error |-> <<"Unknown function", function_name>>]

\* The try block of execute_function.
TryBlock(function_name, arguments, store, fault) ==
    IF function_name = "check_availability"
    THEN check_availability(arguments, store, fault)
    ELSE IF function_name = "add_instruction"
    THEN add_instruction(arguments, store, fault)
    ELSE IF function_name = "add_todo" THEN add_todo(arguments, store, fault)
    ELSE IF function_name = "update_todo" THEN update_todo(arguments, store, fault)
    ELSE IF function_name = "delete_todo" THEN delete_todo(arguments, store, fault)
    ELSE Return(UnknownFunction(function_name), store)

\* A handler that lets the exception go on.
ExceptHandlerReraise(error_msg) == [raised |-> error_msg]

\* The except block of execute_function: the failed result for the text of
\* the exception.
ExceptHandler(error_msg) ==
    IF "quota" \in error_msg \/ "rate" \in error_msg
    THEN [success |-> FALSE, error |-> "API rate limit reached.",
          error_type |-> "rate_limit"]
    ELSE IF "credential" \in error_msg \/ "auth" \in error_msg
    THEN [success |-> FALSE, error |-> "Calendar authentication issue.",
          error_type |-> "auth_error"]
    ELSE IF "not found" \in error_msg
    THEN [success |-> FALSE, error |-> <<"Could not find", error_msg>>,
          error_type |-> "not_found"]
    ELSE [success |-> FALSE, error |-> <<"Error", error_msg>>,
          error_type |-> "unknown"]

\* The way out of execute_function for the way out of its try block: the
\* result, the store, and whether the except block ran.
Outcome(out) ==
    [result |-> IF out.raised THEN ExceptHandler(out.error_msg) ELSE out.result,
     store |-> out.store,
     raised |-> out.raised]

\* execute_function: the result, and the store after it.  `fault` is None,
\* or the text of the failure of the collaborator the executor calls.
execute_function(function_name, arguments, store, fault) ==
    Outcome(TryBlock(function_name, arguments, store, fault))

\* The tables execute_function works on.
Store == [instructions |-> instructions, todos |-> todos, pending |-> pending]

\* One entry of function_results / new_function_results.
FunctionResult(tool_call, result) ==
    [tool_call_id |-> tool_call.id, name |-> tool_call.name, result |-> result]

----------------------------------------------------------------------------
(* _continue_with_function_results.                                        *)

\* The recursion guard with an off-by-one limit.
DepthLimitReachedLate(d) == d > MAX_DEPTH

\* The recursion guard.
DepthLimitReached(d) == d >= MAX_DEPTH

\* The assistant turn that records the round's tool calls.
tool_calls_message(frs) ==
    Turn("assistant", None,
         [i \in 1..Len(frs) |->
             [id |-> frs[i].tool_call_id,
              type |-> "function",
              function |-> [name |-> frs[i].name,
                            arguments |-> JsonDumps(frs[i].result)]]],
         None)

\* Tool turns appended last result first.
tool_responses_reversed(frs) ==
    [i \in 1..Len(frs) |->
        Turn("tool", JsonDumps(frs[Len(frs) + 1 - i].result), None,
             frs[Len(frs) + 1 - i].tool_call_id)]

\* The tool turns, one per result.
tool_responses(frs) ==
    [i \in 1..Len(frs) |->
        Turn("tool", JsonDumps(frs[i].result), None, frs[i].tool_call_id)]

\* A stream_chat generator at its start: the content chunks yielded, the
\* tool calls collected from the deltas, the tool_call chunks yielded, and
\* whether the chunk with finish_reason tool_calls has arrived.
FreshStream == [chunks |-> 0, collected |-> <<>>, calls |-> 0, phase |-> "open"]

\* A client that yields every collected tool call twice.
tool_call_chunks_twice(collected) == collected \o collected

\* stream_chat at finish_reason tool_calls: one tool_call chunk per collected
\* tool call, in order.
tool_call_chunks(collected) == collected

\* The id the model gives the index-th tool call of its round-th response.
ToolCallId(round, index) == round * 100 + index

\* One stream_chat call: what was sent and the store at that instant.
CallRecord(msgs, instrs) ==
    [n_messages |-> Len(msgs), system |-> msgs[1].content, store |-> instrs]

\* A guard that reports the limit as an error chunk.
fallback_chunks_as_error == <<Ev("error", FALLBACK, 0)>>

\* What the guard yields at the limit: the fallback text and a finish chunk.
fallback_chunks == <<Ev("content", FALLBACK, 0), Ev("finish", "stop", 0)>>

\* process_message adds to full_response the text of the chunks of type
\* content that a continuation yields.
RECURSIVE content_of(_)
content_of(chunks) ==
    IF chunks = <<>> THEN <<>>
    ELSE IF Head(chunks).type = "content"
         THEN <<Head(chunks).data>> \o content_of(Tail(chunks))
         ELSE content_of(Tail(chunks))

\* The entry of _continue_with_function_results(messages, frs, d), up to its
\* stream_chat call; at the limit, the fallback, which unwinds every frame.
Continue(frs, d) ==
    IF DepthLimitReached(d)
    THEN /\ events' = events \o fallback_chunks
         /\ full_response' = full_response \o content_of(fallback_chunks)
         /\ opc' = "finalize"
         /\ depth' = d
         /\ in_continue' = TRUE
         /\ UNCHANGED <<messages, new_function_results, stream, calls, continuing>>
    ELSE /\ messages' = messages \o <<tool_calls_message(frs)>> \o tool_responses(frs)
         /\ new_function_results' = <<>>
         /\ depth' = d
         /\ in_continue' = TRUE
         /\ stream' = FreshStream
         /\ calls' = Append(calls, CallRecord(messages', instructions))
         /\ continuing' = continuing + 1
         /\ opc' = "streaming"
         /\ UNCHANGED <<events, full_response>>

----------------------------------------------------------------------------
(* process_message, one action per chunk of the stream.                    *)

\* The calls of a name that is no tool the model has made in the request.
UnknownCalls ==
    Cardinality({ i \in 1..Len(executed) : executed[i].name = "frobnicate" })
    + Cardinality({ k \in (stream.calls + 1)..Len(stream.collected) :
                      stream.collected[k].name = "frobnicate" })

\* The tool calls the model has made in the request.
ToolCallsMade == Len(executed) + Len(stream.collected) - stream.calls

OInit ==
    /\ \E c \in Conversations :
          /\ db_messages = [i \in 1..c.prior |-> PriorTurn(i)]
          /\ title = c.title
    /\ instructions = <<>> /\ todos = <<>> /\ pending = <<>>
    /\ opc = "idle" /\ messages = <<>> /\ full_response = <<>>
    /\ function_results = <<>> /\ new_function_results = <<>>
    /\ in_continue = FALSE /\ depth = 0 /\ stream = <<>> /\ events = <<>>
    /\ calls = <<>> /\ executed = <<>> /\ outcomes = <<>>
    /\ continuing = 0 /\ errors = 0 /\ title_calls = <<>>

\* process_message up to its first stream_chat call: the user turn is saved,
\* then the instruction list is built.
ProcessMessage ==
    /\ opc = "idle"
    /\ db_messages' = save_message(db_messages, "user", Text(user_message))
    /\ messages' = build_messages_for_ai(db_messages', instructions, Text(user_message))
    /\ full_response' = <<>>
    /\ function_results' = <<>>
    /\ stream' = FreshStream
    /\ calls' = Append(calls, CallRecord(messages', instructions))
    /\ opc' = "streaming"
    /\ UNCHANGED <<instructions, title, todos, pending, new_function_results, in_continue,
                   depth, events, executed, outcomes, continuing, errors,
                   title_calls>>

\* A content chunk.
OnContent ==
    /\ opc = "streaming" /\ stream.phase = "open" /\ Len(full_response) < MaxChunks
    /\ \E text \in Fragments :
          /\ full_response' = Append(full_response, text)
          /\ events' = Append(events, Ev(IF in_continue THEN "content" ELSE "chunk",
                                         text, 0))
    /\ stream' = [stream EXCEPT !.chunks = @ + 1]
    /\ UNCHANGED <<store_vars, opc, messages, function_results, new_function_results,
                   in_continue, depth, hist_vars>>

\* A tool-call delta: stream_chat collects one more tool call and yields
\* nothing.
OnToolCallDelta ==
    /\ opc = "streaming" /\ stream.phase = "open"
    /\ Len(stream.collected) < MaxCallsPerRound /\ ToolCallsMade < MaxToolCalls
    /\ \E tr \in ToolRequests :
          /\ tr.name = "frobnicate" => UnknownCalls < MaxUnknownCalls
          /\ stream' = [stream EXCEPT !.collected =
                            Append(@, [id |-> ToolCallId(Len(calls), Len(@) + 1),
                                       name |-> tr.name,
                                       arguments |-> tr.arguments])]
    /\ UNCHANGED <<store_vars, opc, messages, full_response, function_results,
                   new_function_results, in_continue, depth, events, hist_vars>>

\* What the orchestrator does with a tool_call chunk and the outcome `ex` of
\* execute_function for it.
HandleToolCall(tool_call, ex) ==
    /\ instructions' = ex.store.instructions
    /\ todos' = ex.store.todos
    /\ pending' = ex.store.pending
    \* process_message yields a function_call event; the continuation yields
    \* the client's chunk as it is
    /\ events' = events
                 \o <<IF in_continue
                      THEN Ev("tool_call", tool_call, tool_call.id)
                      ELSE Ev("function_call",
                              [function |-> tool_call.name,
                               arguments |-> tool_call.arguments],
                              tool_call.id),
                      Ev("function_result",
                         [function |-> tool_call.name, result |-> ex.result],
                         tool_call.id)>>
    /\ executed' = Append(executed,
           [id |-> tool_call.id, name |-> tool_call.name,
            arguments |-> tool_call.arguments, result |-> ex.result,
            store_before |-> Store, store_after |-> ex.store,
            round |-> Len(calls),
            \* process_message yields function_call and then executes; the
            \* continuation executes and then yields the chunk
            events_before |-> IF in_continue THEN Len(events)
                              ELSE Len(events) + 1])
    /\ IF in_continue
       THEN /\ new_function_results' =
                   Append(new_function_results, FunctionResult(tool_call, ex.result))
            /\ UNCHANGED function_results
       ELSE /\ function_results' =
                   Append(function_results, FunctionResult(tool_call, ex.result))
            /\ UNCHANGED new_function_results

ExecuteToolCall(tool_call) ==
    HandleToolCall(tool_call,
                   execute_function(tool_call.name, tool_call.arguments, Store, None))

\* A tool_call chunk: the stream closed with finish_reason tool_calls and
\* yields the collected calls one by one; the orchestrator executes each as
\* it arrives.
OnToolCall ==
    /\ opc = "streaming"
    /\ stream.calls < Len(tool_call_chunks(stream.collected))
    /\ ExecuteToolCall(tool_call_chunks(stream.collected)[stream.calls + 1])
    /\ stream' = [stream EXCEPT !.calls = @ + 1, !.phase = "tools"]
    /\ UNCHANGED <<db_messages, title, opc, messages, full_response, in_continue,
                   depth, calls, outcomes, continuing, errors,
                   title_calls>>

\* The finish chunk, the last of its stream.
OnFinish ==
    /\ opc = "streaming"
    /\ \E reason \in FinishReasons \cup {"tool_calls"} :
          /\ IF reason = "tool_calls"
             THEN /\ stream.phase = "tools"
                  /\ stream.calls = Len(tool_call_chunks(stream.collected))
             ELSE stream.phase = "open"
          /\ outcomes' = Append(outcomes, reason)
          /\ LET frs == IF in_continue THEN new_function_results ELSE function_results
             IN  IF reason = "tool_calls" /\ frs # <<>>
                 THEN Continue(frs, IF in_continue THEN depth + 1 ELSE 0)
                 ELSE /\ events' = IF in_continue
                                   THEN Append(events, Ev("finish", reason, 0))
                                   ELSE events
                      /\ opc' = "finalize"
                      /\ UNCHANGED <<messages, full_response, new_function_results,
                                     in_continue, depth, stream, calls, continuing>>
    /\ UNCHANGED <<store_vars, function_results, executed, errors, title_calls>>

\* An error chunk, the last of its stream: the create call failed, or the
\* stream failed after it opened.
OnError ==
    /\ opc = "streaming"
    /\ \E etype \in CreateErrors \cup StreamErrors :
          /\ etype \in CreateErrors => stream = FreshStream
          \* after the chunk with finish_reason tool_calls only json.loads of
          \* the next call's arguments can fail
          /\ stream.phase = "tools" =>
                stream.calls < Len(tool_call_chunks(stream.collected))
          /\ events' = IF in_continue THEN Append(events, Ev("error", etype, 0))
                       ELSE events
    /\ errors' = errors + 1
    /\ outcomes' = Append(outcomes, "error")
    /\ opc' = "finalize"
    /\ UNCHANGED <<store_vars, messages, full_response, function_results,
                   new_function_results, in_continue, depth, stream, calls,
                   executed, continuing, title_calls>>

\* A process_message that yields title_update after complete.
final_events_title_last(new_title, full) ==
    <<Ev("complete", full, 0)>>
    \o (IF new_title THEN <<Ev("title_update", "Generated title", 0)>> ELSE <<>>)

\* The last events of process_message: title_update when a title was
\* generated, then complete with the accumulated text.
final_events(new_title, full) ==
    (IF new_title THEN <<Ev("title_update", "Generated title", 0)>> ELSE <<>>)
    \o <<Ev("complete", full, 0)>>

\* An assistant turn saved whatever the text.
assistant_saved_always(full) == TRUE

\* Whether process_message saves the assistant turn: `if full_response:`.
assistant_saved(full) == full # <<>>

\* Whether process_message asks for a title: the assistant turn was saved
\* and the conversation has no title.
title_asked(full, current_title) == full # <<>> /\ current_title = None

\* A title taken as generated whether or not the call succeeded.
generated_title_despite_failure(full, current_title, title_ok) ==
    title_asked(full, current_title)

\* Whether a title is set and announced: the call was made and it and
\* update_conversation succeeded.
generated_title(full, current_title, title_ok) ==
    title_asked(full, current_title) /\ title_ok

\* The end of process_message: the assistant turn is saved when there is
\* text, a title is asked for when the conversation has none (the call may
\* fail), and `complete` is yielded.
Complete ==
    /\ opc = "finalize"
    /\ \E title_ok \in BOOLEAN :
          /\ db_messages' = IF assistant_saved(full_response)
                            THEN save_message(db_messages, "assistant",
                                              Joined(full_response))
                            ELSE db_messages
          /\ todos' = IF assistant_saved(full_response)
                      THEN Commit(Store).todos ELSE todos
          /\ pending' = IF assistant_saved(full_response)
                        THEN Commit(Store).pending ELSE pending
          /\ title_calls' = IF title_asked(full_response, title)
                            THEN Append(title_calls, title_ok)
                            ELSE title_calls
          /\ title' = IF generated_title(full_response, title, title_ok)
                      THEN Some("Generated title") ELSE title
          /\ events' = events
                       \o final_events(generated_title(full_response, title, title_ok),
                                       full_response)
    /\ opc' = "done"
    /\ UNCHANGED <<instructions, messages, full_response, function_results,
                   new_function_results, in_continue, depth, stream, calls,
                   executed, outcomes, continuing, errors>>

AIdle == req = [busy |-> <<>>] /\ slots = <<>> /\ apc = "idle" /\ first_slot = <<>>

OrchInit == OInit /\ AIdle /\ DIdle

OrchNext ==
    \/ ProcessMessage /\ UNCHANGED <<avars, dvars>>
    \/ OnContent /\ UNCHANGED <<avars, dvars>>
    \/ OnToolCallDelta /\ UNCHANGED <<avars, dvars>>
    \/ OnToolCall /\ UNCHANGED <<avars, dvars>>
    \/ OnFinish /\ UNCHANGED <<avars, dvars>>
    \/ OnError /\ UNCHANGED <<avars, dvars>>
    \/ Complete /\ UNCHANGED <<avars, dvars>>

OrchSpec == OrchInit /\ [][OrchNext]_vars

----------------------------------------------------------------------------
(* process_message_sync, the path of POST /message.                        *)

\* The tool_calls of one response of client.chat: 1 to MaxCallsPerRound
\* requests, with the ids the model gives them.
SyncToolCalls ==
    { [k \in 1..Len(reqs) |->
          [id |-> ToolCallId(Len(calls), k), name |-> reqs[k].name,
           arguments |-> reqs[k].arguments]] :
        reqs \in UNION { [1..n -> ToolRequests] : n \in 1..MaxCallsPerRound } }

\* The assistant turn process_message_sync appends for a response.
sync_tool_calls_message(tool_calls) ==
    Turn("assistant", None,
         [k \in 1..Len(tool_calls) |->
             [id |-> tool_calls[k].id,
              type |-> "function",
              function |-> [name |-> tool_calls[k].name,
                            arguments |-> JsonDumps(tool_calls[k].arguments)]]],
         None)

\* One pass of `for tc in tool_calls`: the store, the calls made and the
\* results after the outcome `ex` of execute_function for tc.
AfterCall(tc, acc, round, ex) ==
    [store |-> ex.store,
     executed |-> Append(acc.executed,
                         [id |-> tc.id, name |-> tc.name,
                          arguments |-> tc.arguments, result |-> ex.result,
                          store_before |-> acc.store, store_after |-> ex.store,
                          round |-> round, events_before |-> 0]),
     results |-> Append(acc.results, FunctionResult(tc, ex.result))]

\* `for tc in tool_calls`: each call is executed on the store the one before
\* left.
RECURSIVE ExecuteAll(_, _, _)
ExecuteAll(tool_calls, acc, round) ==
    IF tool_calls = <<>> THEN acc
    ELSE ExecuteAll(Tail(tool_calls),
                    AfterCall(Head(tool_calls), acc, round,
                              execute_function(Head(tool_calls).name,
                                               Head(tool_calls).arguments,
                                               acc.store, None)),
                    round)

\* The while loop's pass for a response with tool_calls, given what the
\* executions left.
SyncPass(tool_calls, all) ==
    /\ instructions' = all.store.instructions
    /\ todos' = all.store.todos
    /\ pending' = all.store.pending
    /\ executed' = executed \o all.executed
    /\ function_results' = function_results \o all.results
    /\ messages' = messages \o <<sync_tool_calls_message(tool_calls)>>
                   \o tool_responses(all.results)
    /\ calls' = Append(calls, CallRecord(messages', instructions'))
    /\ outcomes' = Append(outcomes, "tool_calls")

\* process_message_sync up to its first client.chat call.
ProcessMessageSync ==
    /\ opc = "idle"
    /\ db_messages' = save_message(db_messages, "user", Text(user_message))
    /\ messages' = build_messages_for_ai(db_messages', instructions, Text(user_message))
    /\ function_results' = <<>>
    /\ calls' = Append(calls, CallRecord(messages', instructions))
    /\ opc' = "sync"
    /\ UNCHANGED <<instructions, title, todos, pending, full_response, new_function_results,
                   in_continue, depth, stream, events, executed, outcomes,
                   continuing, errors,
                   title_calls>>

\* A response with tool calls: one pass of the while loop, up to the next
\* client.chat call.
SyncToolCallsResponse ==
    /\ opc = "sync"
    /\ \E tool_calls \in SyncToolCalls :
          /\ Len(executed) + Len(tool_calls) <= MaxToolCalls
          /\ Cardinality({ i \in 1..Len(executed) : executed[i].name = "frobnicate" })
             + Cardinality({ k \in 1..Len(tool_calls) :
                               tool_calls[k].name = "frobnicate" }) <= MaxUnknownCalls
          /\ SyncPass(tool_calls,
                      ExecuteAll(tool_calls,
                                 [store |-> Store, executed |-> <<>>, results |-> <<>>],
                                 Len(calls)))
    /\ UNCHANGED <<db_messages, title, opc, full_response, new_function_results,
                   in_continue, depth, stream, events, continuing, errors,
                   title_calls>>

\* A response without tool calls: the assistant turn is saved and the
\* function returns.
SyncFinalResponse ==
    /\ opc = "sync"
    /\ \E text \in Fragments :
          db_messages' = save_message(db_messages, "assistant", Text(text))
    /\ todos' = Commit(Store).todos
    /\ pending' = Commit(Store).pending
    /\ outcomes' = Append(outcomes, "stop")
    /\ opc' = "done"
    /\ UNCHANGED <<instructions, title, messages, full_response,
                   function_results, new_function_results, in_continue, depth,
                   stream, events, calls, executed, continuing, errors,
                   title_calls>>

\* client.chat raises: process_message_sync handles no exception.
SyncChatRaises ==
    /\ opc = "sync"
    /\ outcomes' = Append(outcomes, "raised")
    /\ opc' = "done"
    /\ UNCHANGED <<store_vars, messages, full_response, function_results,
                   new_function_results, in_continue, depth, stream, events,
                   calls, executed, continuing, errors,
                   title_calls>>

SyncNext ==
    \/ ProcessMessageSync /\ UNCHANGED <<avars, dvars>>
    \/ SyncToolCallsResponse /\ UNCHANGED <<avars, dvars>>
    \/ SyncFinalResponse /\ UNCHANGED <<avars, dvars>>
    \/ SyncChatRaises /\ UNCHANGED <<avars, dvars>>

\* One request on either path: process_message or process_message_sync.
ChatNext == OrchNext \/ SyncNext

ChatSpec == OrchInit /\ [][ChatNext]_vars

----------------------------------------------------------------------------
(* Properties of the orchestrator.                                         *)

Finished == opc \in {"finalize", "done"}

FallbackEmitted ==
    \E i \in 1..Len(events) : events[i].type = "content" /\ events[i].data = FALLBACK

\* C3: on every Continuing transition the assistant turn appended to the
\* message list records, for each tool call of the round, the id, the name
\* and the arguments the model requested.
C3_AssistantTurnRecordsRequest ==
    \A i \in 1..Len(messages) :
        (messages[i].role = "assistant" /\ messages[i].tool_calls # None) =>
            \A k \in 1..Len(messages[i].tool_calls) :
                LET tc == messages[i].tool_calls[k]
                IN  \E j \in 1..Len(executed) :
                        /\ executed[j].id = tc.id
                        /\ executed[j].name = tc.function.name
                        /\ tc.function.arguments = JsonDumps(executed[j].arguments)

\* C4: a loop driven by a model that requests a tool call in every round ends
\* after exactly 5 Continuing transitions with the fallback message; the
\* depth never exceeds 5 and no model call follows the limit.
C4_DepthBound ==
    /\ depth <= MAX_DEPTH
    /\ continuing <= MAX_DEPTH
    /\ FallbackEmitted =>
          /\ continuing = MAX_DEPTH
          /\ Len(calls) = MAX_DEPTH + 1
          /\ Finished
    /\ (Finished /\ \A i \in 1..Len(outcomes) : outcomes[i] = "tool_calls") =>
          /\ FallbackEmitted
          /\ continuing = MAX_DEPTH

\* A finished run in which every round requested a tool call.
C4_Witness ==
    /\ opc = "done"
    /\ Len(outcomes) = MAX_DEPTH + 1
    /\ \A i \in 1..Len(outcomes) : outcomes[i] = "tool_calls"
    /\ FallbackEmitted

\* C5: every result of an executed tool call is appended to the message list
\* and sent in a later model call; none is dropped.
C5_ResultsFedBack ==
    Finished =>
        \A j \in 1..Len(executed) :
            \E i \in 1..Len(messages) :
                /\ messages[i].role = "tool"
                /\ messages[i].tool_call_id = executed[j].id
                /\ messages[i].content = JsonDumps(executed[j].result)
                /\ \E c \in 1..Len(calls) : calls[c].n_messages >= i

\* C6: when the client reports an error in any round, the first included, an
\* `error` event is forwarded to the caller.
C6_ErrorForwarded ==
    errors > 0 => \E i \in 1..Len(events) : events[i].type = "error"

EventTags == {"chunk", "function_call", "function_result", "title_update",
              "complete", "error"}

\* C7: every event emitted to the caller, in the first round and in every
\* continuation round, carries one of the six tags.
C7_EventTags == \A i \in 1..Len(events) : events[i].type \in EventTags

\* C8: for every tool call of every round, the name and the arguments are
\* emitted to the caller before execute_function runs for the call, and the
\* result is emitted after it.
C8_AnnouncedBeforeExecution ==
    \A j \in 1..Len(executed) :
        LET x == executed[j]
        IN  /\ \E i \in 1..x.events_before :
                  /\ events[i].of = x.id
                  /\ \/ /\ events[i].type = "function_call"
                        /\ events[i].data.function = x.name
                        /\ events[i].data.arguments = x.arguments
                     \/ /\ events[i].type = "tool_call"
                        /\ events[i].data.name = x.name
                        /\ events[i].data.arguments = x.arguments
            /\ \E i \in (x.events_before + 1)..Len(events) :
                  /\ events[i].of = x.id
                  /\ events[i].type = "function_result"
                  /\ events[i].data.result = x.result

\* The list build_messages_for_ai returned: what the first model call sent.
BuiltMessages == SubSeq(messages, 1, calls[1].n_messages)

\* C9: the instruction list is one system instruction, then at most K = 20
\* prior turns in chronological order, then the new user turn; the new user
\* message appears exactly once in the list, as its last element.
C9_InstructionList ==
    calls # <<>> =>
        LET m == BuiltMessages
            n == Len(m)
        IN  /\ n >= 2
            /\ m[1].role = "system"
            /\ m[n].role = "user" /\ m[n].content = Text(user_message)
            /\ n - 2 <= max_history
            /\ \E k \in 0..Len(db_messages) :
                  \A j \in 1..(n - 2) :
                      /\ k + j <= Len(db_messages)
                      /\ m[1 + j].role = db_messages[k + j].role
                      /\ m[1 + j].content = db_messages[k + j].content
            /\ Cardinality({ i \in 1..n : m[i].role = "user"
                                          /\ m[i].content = Text(user_message) }) = 1

\* C10: the instruction list is recomputed from the persisted state before
\* every model call: what a tool persisted in round k is in the system
\* instruction sent in round k+1.
C10_PromptRecomputed ==
    \A c \in 1..Len(calls) : calls[c].system = build_system_prompt(calls[c].store)

\* C18: a call of a name that is no tool returns success = false and leaves
\* the store as it was; the run goes on: the stream is read to its end, and
\* when it ends with tool_calls below the depth limit the next model call is
\* made with the failed result as a tool turn.
C18_UnknownToolFails ==
    \A j \in 1..Len(executed) :
        LET x == executed[j]
            r == x.round
        IN  x.name \notin DOMAIN AI_FUNCTIONS =>
                /\ x.result.success = FALSE
                /\ x.store_after = x.store_before
                /\ Len(outcomes) < r => opc = "streaming"
                /\ (Len(outcomes) >= r /\ outcomes[r] = "tool_calls" /\ r <= MAX_DEPTH) =>
                      /\ Len(calls) >= r + 1
                      /\ \E i \in 1..calls[r + 1].n_messages :
                            /\ messages[i].role = "tool"
                            /\ messages[i].tool_call_id = x.id
                            /\ messages[i].content = JsonDumps(x.result)

\* A finished run whose first round called a name that is no tool, and whose
\* second round answered with text.
C18_Witness ==
    /\ opc = "done"
    /\ Len(outcomes) = 2 /\ outcomes[1] = "tool_calls" /\ outcomes[2] = "stop"
    /\ full_response # <<>>
    /\ \E j \in 1..Len(executed) :
          /\ executed[j].name = "frobnicate" /\ executed[j].round = 1
          /\ executed[j].result.success = FALSE

\* C20: each tool call the model emits is executed at most once during a
\* request, on the streaming path and on the synchronous path.
C20_AtMostOnce ==
    \A i, j \in 1..Len(executed) : executed[i].id = executed[j].id => i = j

\* A finished streaming run of several rounds, one of them with two tool
\* calls, every one executed.
C20_Witness ==
    /\ opc = "done" /\ in_continue /\ continuing >= 2
    /\ \E i, j \in 1..Len(executed) :
          i # j /\ executed[i].round = executed[j].round
    /\ \A c \in 1..continuing :
          \E j \in 1..Len(executed) : executed[j].round = c

\* The text fragments among the events, in the order they were emitted.
RECURSIVE EmittedText(_)
EmittedText(evs) ==
    IF evs = <<>> THEN <<>>
    ELSE IF Head(evs).type \in {"chunk", "content"}
         THEN <<Head(evs).data>> \o EmittedText(Tail(evs))
         ELSE EmittedText(Tail(evs))

\* The events of a finished run end with a terminal event, `complete` with the
\* accumulated text or `error`, and the text fragments emitted are the
\* accumulated text.
EndsWithTerminal ==
    /\ opc \in {"streaming", "finalize", "done"} => EmittedText(events) = full_response
    /\ (opc = "done" /\ calls # <<>> /\ stream # <<>>) =>
          /\ events # <<>>
          /\ LET last == events[Len(events)]
             IN  \/ last.type = "complete" /\ last.data = full_response
                 \/ last.type = "error"

\* A step never removes or changes an event already emitted, and no step
\* follows the terminal event.
NoRetraction ==
    /\ Len(events') >= Len(events)
    /\ SubSeq(events', 1, Len(events)) = events
    /\ (events # <<>> /\ events[Len(events)].type = "complete") => events' = events

\* C21: every run of process_message ends its event stream with a terminal
\* event, `complete` carrying the accumulated text or `error`, and emits no
\* event after it; text fragments already emitted are never retracted.
C21_TerminalEvent == []EndsWithTerminal /\ [][NoRetraction]_vars

\* A finished run that streamed text, executed a tool call, met a failure of
\* the model call in the continuation and ended with complete.
C21_Witness ==
    /\ opc = "done" /\ errors > 0 /\ full_response # <<>> /\ executed # <<>>
    /\ events[Len(events)].type = "complete"
    /\ \E i \in 1..Len(events) : events[i].type = "error"

\* C22: when the recursion limit is reached no `error` event is emitted: the
\* caller receives the fixed fallback message as text, and the full text of
\* the final `complete` event contains that message.
C22_LimitDegradesGracefully ==
    (in_continue /\ depth = MAX_DEPTH) =>
        /\ \A i \in 1..Len(events) : events[i].type # "error"
        /\ \E i \in 1..Len(events) :
              events[i].type \in {"chunk", "content"} /\ events[i].data = FALLBACK
        /\ opc = "done" =>
              /\ events[Len(events)].type = "complete"
              /\ \E k \in 1..Len(events[Len(events)].data) :
                    events[Len(events)].data[k] = FALLBACK

\* A finished run that reached the limit after streaming text of its own.
C22_Witness ==
    /\ opc = "done" /\ in_continue /\ depth = MAX_DEPTH
    /\ continuing = MAX_DEPTH
    /\ Len(full_response) >= 2

\* A run of process_message_sync, which opens no stream.
OnSyncPath == opc = "sync" \/ (opc = "done" /\ stream = <<>>)

\* C23: every orchestrator loop is bounded against tool-call cycles:
\* process_message_sync, like the streaming loop, makes at most MAX_DEPTH + 1
\* model calls when every model response requests another tool call.
C23_SyncLoopBounded ==
    /\ ~OnSyncPath => Len(calls) <= MAX_DEPTH + 1
    /\ OnSyncPath => Len(calls) <= MAX_DEPTH + 1

\* The execute_function calls made in a round, in the order they were made.
RECURSIVE ExecutedIn(_, _)
ExecutedIn(round, xs) ==
    IF xs = <<>> THEN <<>>
    ELSE IF Head(xs).round = round
         THEN <<Head(xs)>> \o ExecutedIn(round, Tail(xs))
         ELSE ExecutedIn(round, Tail(xs))

\* C24: before each model call after the first, what was appended to the
\* message list since the call before is the assistant turn followed by
\* exactly one tool turn per tool call executed in the round, in execution
\* order and each with the tool_call_id and the result of its call; the calls
\* of a round are executed in the order the stream delivered them.
C24_ResultsInOrder ==
    /\ \A c \in 2..Len(calls) :
          LET lo == calls[c - 1].n_messages
              hi == calls[c].n_messages
              x == ExecutedIn(c - 1, executed)
          IN  /\ hi = lo + 1 + Len(x)
              /\ x # <<>>
              /\ messages[lo + 1].role = "assistant"
              /\ messages[lo + 1].tool_calls # None
              /\ Len(messages[lo + 1].tool_calls) = Len(x)
              /\ \A k \in 1..Len(x) :
                    /\ messages[lo + 1].tool_calls[k].id = x[k].id
                    /\ messages[lo + 1 + k].role = "tool"
                    /\ messages[lo + 1 + k].tool_call_id = x[k].id
                    /\ messages[lo + 1 + k].content = JsonDumps(x[k].result)
    /\ \A j \in 1..Len(executed) :
          LET x == ExecutedIn(executed[j].round, executed)
          IN  \A k \in 1..Len(x) : x[k].id = ToolCallId(x[k].round, k)

\* A round executed two tool calls with different results and a later model
\* call was made.
C24_TwoCallsFedBack ==
    \E c \in 2..Len(calls) :
        LET x == ExecutedIn(c - 1, executed)
        IN  Len(x) = 2 /\ x[1].result # x[2].result

\* A finished streaming run of several rounds with such a round.
C24_Witness == C24_TwoCallsFedBack /\ opc = "done" /\ in_continue /\ continuing >= 2

----------------------------------------------------------------------------
(* execute_function on its own: any name, any argument map, any failure of *)
(* the collaborator, on the store the earlier calls left.                  *)

\* Calls of execute_function in one run.
MaxDispatches == 2

\* Argument maps that fit the declared schema, that lack a required field,
\* and that hold a value outside a declared enum.
DispatchCalls ==
    { [name |-> "check_availability", arguments |-> [duration_minutes |-> 30]],
      [name |-> "check_availability", arguments |-> [duration_minutes |-> 600]],
      [name |-> "check_availability", arguments |-> [allow_outside_hours |-> TRUE]],
      [name |-> "check_availability",
       arguments |-> [duration_minutes |-> 600, allow_outside_hours |-> TRUE]],
      [name |-> "add_instruction",
       arguments |-> [category |-> "behavior", instruction |-> "be brief"]],
      [name |-> "add_instruction",
       arguments |-> [category |-> "style", instruction |-> "be brief"]],
      [name |-> "add_instruction", arguments |-> [category |-> "behavior"]],
      [name |-> "add_todo", arguments |-> [title |-> "buy milk"]],
      [name |-> "add_todo", arguments |-> [title |-> "buy milk", priority |-> "urgent"]],
      [name |-> "add_todo", arguments |-> [priority |-> "low"]],
      [name |-> "add_todo",
       arguments |-> [title |-> "buy milk", start_date |-> DateStr(<<"Tomorrow">>),
                      due_date |-> DateStr(<<"next", "friday">>)]],
      [name |-> "update_todo",
       arguments |-> [todo_id |-> 1, start_date |-> DateStr(<<"today">>)]],
      [name |-> "update_todo",
       arguments |-> [todo_id |-> 1, due_date |-> DateStr(<<"next", "friday">>)]],
      [name |-> "update_todo",
       arguments |-> [todo_id |-> 1, start_date |-> IsoDate(At(2, 14, 0)),
                      due_date |-> DateStr(<<>>)]],
      [name |-> "update_todo", arguments |-> [todo_id |-> 1, priority |-> "high"]],
      [name |-> "update_todo",
       arguments |-> [todo_id |-> 1, title |-> "buy bread",
                      start_date |-> DateStr(<<"today">>)]],
      [name |-> "delete_todo", arguments |-> [todo_id |-> 1]],
      [name |-> "delete_todo", arguments |-> [title |-> "buy milk"]],
      [name |-> "frobnicate", arguments |-> [title |-> "buy milk"]] }

DispatchFaults == {None} \cup { Some(t) : t \in FaultTexts }

\* The store and the record of one call, given its outcome `ex`.
Dispatched(c, fault, ex) ==
    /\ instructions' = ex.store.instructions
    /\ todos' = ex.store.todos
    /\ pending' = ex.store.pending
    /\ dispatched' = Append(dispatched,
           [name |-> c.name, arguments |-> c.arguments, fault |-> fault,
            raised |-> ex.raised, result |-> ex.result,
            store_before |-> Store, store_after |-> ex.store])

\* One call of execute_function.
ExecuteFunction ==
    /\ Len(dispatched) < MaxDispatches
    /\ db_messages = <<>>
    /\ \E c \in DispatchCalls, fault \in DispatchFaults :
          Dispatched(c, fault, execute_function(c.name, c.arguments, Store, fault))
    /\ UNCHANGED <<avars, db_messages, title, run_vars, hist_vars, cvars, kvars,
                   lvars>>

\* The save_message that ends the request the calls belong to: the assistant
\* turn is added and the session is committed.
SaveAssistantTurn ==
    /\ dispatched # <<>> /\ db_messages = <<>>
    /\ db_messages' = save_message(db_messages, "assistant", Text("ok"))
    /\ todos' = Commit(Store).todos
    /\ pending' = Commit(Store).pending
    /\ UNCHANGED <<avars, instructions, title, run_vars, hist_vars, dvars>>

DispatchInit == AIdle /\ OIdle /\ DIdle

DispatchNext == ExecuteFunction \/ SaveAssistantTurn

DispatchSpec == DispatchInit /\ [][DispatchNext]_vars

\* Whether an argument map fits the schema AI_FUNCTIONS declares for the tool.
SchemaValid(name, arguments) ==
    LET schema == AI_FUNCTIONS[name]
    IN  /\ schema.required \subseteq DOMAIN arguments
        /\ \A e \in schema.enum :
              e[1] \in DOMAIN arguments => arguments[e[1]] \in e[2]

\* C17: a call of a declared tool whose arguments violate the declared schema
\* (a required field missing, a value outside the enum) yields success =
\* false and leaves the store as it was.
C17_InvalidArgumentsRejected ==
    \A i \in 1..Len(dispatched) :
        LET d == dispatched[i]
        IN  (d.name \in DOMAIN AI_FUNCTIONS /\ ~SchemaValid(d.name, d.arguments)) =>
                (d.result.success = FALSE /\ d.store_after = d.store_before)

\* C19: for every name and every argument map execute_function returns a
\* result with a success flag, and a failure raised inside the executor
\* yields success = false with an error message.
C19_NoExceptionEscapes ==
    \A i \in 1..Len(dispatched) :
        LET d == dispatched[i]
        IN  /\ "success" \in DOMAIN d.result
            /\ d.result.success \in BOOLEAN
            /\ d.raised => (d.result.success = FALSE /\ "error" \in DOMAIN d.result)

\* A run in which the collaborator failed with a quota error in one call
\* and a required key was missing in another.
C19_Witness ==
    /\ \E i \in 1..Len(dispatched) :
          /\ dispatched[i].raised /\ dispatched[i].fault = Some({"quota"})
          /\ dispatched[i].result.error_type = "rate_limit"
    /\ \E i \in 1..Len(dispatched) :
          /\ dispatched[i].raised /\ dispatched[i].fault = None
          /\ dispatched[i].result.error_type = "unknown"

\* Whether a date text is a value of the table the two resolvers share:
\* today, tomorrow, or a weekday name.
InSharedTable(date_str) ==
    /\ date_str.iso = None
    /\ ~Contains(Lower(date_str.words), <<"next", "week">>)
    /\ \/ Contains(Lower(date_str.words), <<"today">>)
       \/ Contains(Lower(date_str.words), <<"tomorrow">>)
       \/ \E i \in 1..Len(days) : Contains(Lower(date_str.words), <<days[i]>>)

\* The row of a todo in a store.
TodoRow(store, todo_id) ==
    store.todos[CHOOSE i \in 1..Len(store.todos) : store.todos[i].id = todo_id]

\* C27: update_todo resolves start_date and due_date with the table of
\* add_todo: for every value of the shared table (today, tomorrow, a weekday
\* name) update_todo on an existing todo succeeds and stores the date add_todo
\* stores for the same text at the same instant.
C27_UpdateResolvesDates ==
    \A n \in 1..Len(dispatched) :
        LET d == dispatched[n]
        IN  (/\ d.name = "update_todo" /\ d.fault = None
             /\ "todo_id" \in DOMAIN d.arguments
             /\ \E i \in 1..Len(d.store_before.todos) :
                   d.store_before.todos[i].id = d.arguments.todo_id) =>
                \A f \in {"start_date", "due_date"} :
                    (f \in DOMAIN d.arguments /\ InSharedTable(d.arguments[f])) =>
                        /\ d.result.success
                        /\ TodoRow(d.store_after, d.arguments.todo_id)[f] =
                               parse_date_string(d.arguments[f], Some(DispatchNow)).value

----------------------------------------------------------------------------
(* Two requests on one calendar: each asks check_availability for free     *)
(* slots and, a model call later, schedule_task for one of the slots it    *)
(* was offered.  The tool calls of the two requests interleave.            *)

Requesters == {1, 2}

\* One event of the calendar.
Event(summary, start, end) == [summary |-> summary, start |-> start, end |-> end]

\* The calendar before the requests.
InitialCalendars ==
    { <<>>,
      <<Event(<<"standup", 0>>, At(0, 9, 0), At(0, 10, 30))>>,
      <<Event(<<"review", 0>>, At(0, 10, 0), At(0, 12, 0))>>,
      <<Event(<<"review", 0>>, At(0, 10, 0), At(0, 12, 0)),
        Event(<<"standup", 0>>, At(0, 9, 0), At(0, 10, 30))>> }

\* The durations the requests ask for.
TaskDurations == {30, 60}

\* CalendarService.fetch_busy: the busy periods of the events, sorted by start.
fetch_busy(cal) == SortByStart([i \in 1..Len(cal) |-> <<cal[i].start, cal[i].end>>])

\* An insert that refuses an event overlapping one on the calendar.
create_event_exclusive(cal, summary, start, end) ==
    IF \E i \in 1..Len(cal) : cal[i].start < end /\ start < cal[i].end
    THEN cal
    ELSE Append(cal, Event(summary, start, end))

\* CalendarService.create_event: events().insert on the writable calendar.
create_event(cal, summary, start, end) == Append(cal, Event(summary, start, end))

\* The branch of schedule_task, on the calendar.
schedule_task(arguments, cal, fault) ==
    IF {"title", "start_time", "duration_minutes"} \ DOMAIN arguments # {}
    THEN Raise(KeyErrorText, cal)
    ELSE IF fault # None THEN Raise(fault[1], cal)
    ELSE Return([success |-> TRUE,
                 message |-> <<"Scheduled", arguments.title, arguments.start_time>>,
                 event_id |-> Len(cal) + 1],
                create_event(cal, arguments.title, arguments.start_time,
                             arguments.start_time + arguments.duration_minutes))

ConcInit ==
    /\ calendar \in InitialCalendars
    /\ rpc = [p \in Requesters |-> "start"]
    /\ offered = [p \in Requesters |-> None]
    /\ booked = [p \in Requesters |-> None]
    /\ dispatched = <<>>
    /\ AIdle /\ OIdle /\ KIdle /\ LIdle

\* What a request keeps of its check_availability call and its outcome `ex`.
Offered(p, busy, duration, ex) ==
    /\ offered' = [offered EXCEPT ![p] =
                      Some([busy |-> busy, duration |-> duration, result |-> ex.result])]
    /\ rpc' = [rpc EXCEPT ![p] = "offered"]

\* A request's check_availability call.
CheckAvailability(p) ==
    /\ rpc[p] = "start"
    /\ \E duration \in TaskDurations :
          Offered(p, fetch_busy(calendar), duration,
                  Outcome(check_availability_at(fetch_busy(calendar), DispatchNow,
                                                [duration_minutes |-> duration],
                                                calendar, None)))
    /\ UNCHANGED <<calendar, booked>>

\* What a request keeps of its schedule_task call and its outcome `ex`.
Booked(p, arguments, ex) ==
    /\ calendar' = ex.store
    /\ booked' = [booked EXCEPT ![p] = Some([arguments |-> arguments,
                                             result |-> ex.result])]
    /\ rpc' = [rpc EXCEPT ![p] = "scheduled"]

\* A request's schedule_task call for one of the slots it was offered.
ScheduleTask(p) ==
    /\ rpc[p] = "offered"
    /\ offered[p][1].result.success
    /\ \E k \in 1..Len(offered[p][1].result.available_slots) :
          Booked(p,
                 [title |-> <<"task", p>>,
                  start_time |-> offered[p][1].result.available_slots[k][1],
                  duration_minutes |-> offered[p][1].duration],
                 Outcome(schedule_task(
                     [title |-> <<"task", p>>,
                      start_time |-> offered[p][1].result.available_slots[k][1],
                      duration_minutes |-> offered[p][1].duration],
                     calendar, None)))
    /\ UNCHANGED offered

ConcNext ==
    \/ \E p \in Requesters :
          CheckAvailability(p) /\ UNCHANGED <<avars, ovars, dispatched, kvars, lvars>>
    \/ \E p \in Requesters :
          ScheduleTask(p) /\ UNCHANGED <<avars, ovars, dispatched, kvars, lvars>>

ConcSpec == ConcInit /\ [][ConcNext]_vars

\* Both requests were offered slots against the same busy data and each
\* scheduled the same offered slot.
SameSlotScheduled(p, q) ==
    /\ p # q /\ rpc[p] = "scheduled" /\ rpc[q] = "scheduled"
    /\ offered[p][1].busy = offered[q][1].busy
    /\ booked[p][1].arguments.start_time = booked[q][1].arguments.start_time

\* C25: two requests on the same calendar day are not isolated: when both
\* run check_availability against the same busy data and schedule the same
\* offered slot, both schedule_task calls succeed and the calendar holds two
\* overlapping events.
C25_NoIsolation ==
    \A p, q \in Requesters :
        SameSlotScheduled(p, q) =>
            /\ booked[p][1].result.success /\ booked[q][1].result.success
            /\ \E i, j \in 1..Len(calendar) :
                  /\ i # j
                  /\ calendar[i].summary = <<"task", p>>
                  /\ calendar[j].summary = <<"task", q>>
                  /\ calendar[i].start = booked[p][1].arguments.start_time
                  /\ calendar[j].start = booked[q][1].arguments.start_time
                  /\ calendar[i].start < calendar[j].end
                  /\ calendar[j].start < calendar[i].end

\* Both requests scheduled the same slot, which the busy data each saw
\* offered as free.
C25_Witness ==
    /\ SameSlotScheduled(1, 2)
    /\ booked[1][1].result.success /\ booked[2][1].result.success
    /\ offered[1][1].busy # <<>>
    /\ \E i, j \in 1..Len(calendar) :
          /\ i # j
          /\ calendar[i].summary = <<"task", 1>> /\ calendar[j].summary = <<"task", 2>>
          /\ calendar[i].start < calendar[j].end /\ calendar[j].start < calendar[i].end

----------------------------------------------------------------------------
(* The knowledge base and the context builder: KnowledgeService's          *)
(* save_knowledge, delete_knowledge and get_knowledge, and                 *)
(* ContextBuilder.build_system_prompt with its sub-blocks.                 *)

\* Knowledge operations before the prompt is built.
MaxKnowledgeOps == 3

\* query.first(): the first of the rows the filters left, or None.
First(rows) == IF rows = <<>> THEN None ELSE Some(Head(rows))

\* query.filter(active == True).all()
Active(rows) == SelectSeq(rows, LAMBDA r : r.active)

\* KnowledgeService.save_knowledge: the entry of the category whose subject
\* matches is updated, or a new entry is added; the rows after, and the id.
save_knowledge(rows, category, subject, content) ==
    LET existing == First(SelectSeq(rows, LAMBDA k : ILike(k.subject, subject)
                                                       /\ k.category = category))
    IN  IF existing # None
        THEN [rows |-> [i \in 1..Len(rows) |->
                           IF rows[i].id = existing[1].id
                           THEN [rows[i] EXCEPT !.content = content]
                           ELSE rows[i]],
              id |-> existing[1].id]
        ELSE [rows |-> Append(rows, [id |-> Len(rows) + 1, category |-> category,
                                     subject |-> subject, content |-> content,
                                     active |-> TRUE]),
              id |-> Len(rows) + 1]

\* KnowledgeService.delete_knowledge: a soft delete; the rows after, and
\* whether the entry was found.
delete_knowledge(rows, knowledge_id) ==
    [rows |-> [i \in 1..Len(rows) |->
                  IF rows[i].id = knowledge_id
                  THEN [rows[i] EXCEPT !.active = FALSE]
                  ELSE rows[i]],
     found |-> \E i \in 1..Len(rows) : rows[i].id = knowledge_id]

\* KnowledgeService.get_knowledge: the active entries that match the query in
\* subject, content or category.
get_knowledge(rows, query) ==
    SelectSeq(Active(rows),
              LAMBDA k : \/ ILike(k.subject, query)
                         \/ ILike(k.content, query)
                         \/ ILike(<<k.category>>, query))

\* A sub-block of the system prompt: its header line and the lines under it.
Block(header, body) == [header |-> header, body |-> body]

\* The empty string, which build_system_prompt leaves out.
EmptyText == Block("", <<>>)

\* The categories of the rows, in the order of their first row.
RECURSIVE CategoriesOf(_, _)
CategoriesOf(rows, seen) ==
    IF rows = <<>> THEN <<>>
    ELSE IF Head(rows).category \in seen THEN CategoriesOf(Tail(rows), seen)
    ELSE <<Head(rows).category>>
         \o CategoriesOf(Tail(rows), seen \cup {Head(rows).category})

\* Lines grouped by category: for each category its title line, then the
\* line of each of its rows.
RECURSIVE ByCategory(_, _)
ByCategory(cats, lines) ==
    IF cats = <<>> THEN <<>>
    ELSE LET items == SelectSeq(lines, LAMBDA r : r.category = Head(cats))
         IN  <<(<<"###", Head(cats)>>)>>
             \o [i \in 1..Len(items) |-> items[i].line]
             \o ByCategory(Tail(cats), lines)

\* ContextBuilder._build_instructions_context.
build_instructions_context(rows) ==
    IF Active(rows) = <<>> THEN EmptyText
    ELSE Block("## Custom Instructions",
               ByCategory(CategoriesOf(Active(rows), {}),
                          [i \in 1..Len(Active(rows)) |->
                              [category |-> Active(rows)[i].category,
                               line |-> <<"-", Active(rows)[i].instruction>>]]))

\* ContextBuilder._build_knowledge_context.
build_knowledge_context(rows) ==
    IF Active(rows) = <<>> THEN EmptyText
    ELSE Block("## What I Know About You",
               ByCategory(CategoriesOf(Active(rows), {}),
                          [i \in 1..Len(Active(rows)) |->
                              [category |-> Active(rows)[i].category,
                               line |-> <<"-", Active(rows)[i].subject,
                                          Active(rows)[i].content>>]]))

\* ContextBuilder._build_calendar_context.
build_calendar_context(rows) ==
    IF Active(rows) = <<>>
    THEN Block("## Calendars", <<(<<"No calendars configured yet.">>)>>)
    ELSE Block("## Calendars I Have Access To",
               [i \in 1..Len(Active(rows)) |->
                   <<"-", Active(rows)[i].name,
                     IF Active(rows)[i].permission = "read_write"
                     THEN "read & write" ELSE "read only">>])

\* ContextBuilder._build_rules_context.
build_rules_context(rows) ==
    IF Active(rows) = <<>> THEN EmptyText
    ELSE Block("## Scheduling Rules",
               [i \in 1..Len(Active(rows)) |->
                   <<"-", Active(rows)[i].name, Active(rows)[i].rule_type>>])

\* ContextBuilder._build_today_schedule: `day` is None when the calendar
\* cannot be read.
build_today_schedule(day) ==
    IF day = None THEN EmptyText
    ELSE IF day[1] = <<>>
    THEN Block("## Today's Schedule", <<(<<"No events scheduled for today.">>)>>)
    ELSE Block("## Today's Schedule",
               [i \in 1..Len(day[1]) |-> <<"-", day[1][i].start, day[1][i].summary>>])

\* ContextBuilder.build_system_prompt: the parts, which "\n\n" joins; an
\* empty sub-block is left out.
build_system_prompt_parts(store, day) ==
    LET Opt(text) == IF text # EmptyText THEN <<text>> ELSE <<>>
    IN  <<Block("base prompt", <<>>), Block("## Current Context", <<>>)>>
        \o Opt(build_instructions_context(store.instructions))
        \o Opt(build_knowledge_context(store.knowledge))
        \o Opt(build_calendar_context(store.calendars))
        \o Opt(build_rules_context(store.rules))
        \o Opt(build_today_schedule(day))
        \o <<Block("## How to Use Your Functions", <<>>)>>

\* The rows the tables may hold at the start.
InstructionTables ==
    { <<>>, <<[category |-> "behavior", instruction |-> "be brief", active |-> TRUE]>> }

CalendarTables ==
    { <<>>,
      <<[name |-> "Work", permission |-> "read_write", active |-> TRUE]>>,
      <<[name |-> "Old", permission |-> "read", active |-> FALSE]>> }

RuleTables ==
    { <<>>, <<[name |-> "No Fridays", rule_type |-> "blocked_time", active |-> TRUE]>> }

TodaySchedules ==
    { None, Some(<<>>), Some(<<Event(<<"standup", 0>>, At(0, 9, 0), At(0, 10, 30))>>) }

\* The arguments of the knowledge operations.
KnowledgeCategories == {"people", "business"}

KnowledgeSubjects == { <<"dog">>, <<"my", "Dog">> }

KnowledgeContents == { <<"Rex">>, <<"Fido">> }

ContextInit ==
    /\ \E i \in InstructionTables, c \in CalendarTables, r \in RuleTables :
          kb = [instructions |-> i, knowledge |-> <<>>, calendars |-> c, rules |-> r]
    /\ today_events \in TodaySchedules
    /\ prompt = None
    /\ klast = None
    /\ dispatched = <<>>
    /\ AIdle /\ OIdle /\ CIdle /\ LIdle

\* The knowledge operations that added or deleted an entry.
KnowledgeOps ==
    Len(kb.knowledge)
    + Cardinality({ i \in 1..Len(kb.knowledge) : ~kb.knowledge[i].active })

\* execute_function (save_knowledge).
SaveKnowledge ==
    /\ prompt = None /\ KnowledgeOps < MaxKnowledgeOps
    /\ \E category \in KnowledgeCategories, subject \in KnowledgeSubjects,
          content \in KnowledgeContents :
          /\ kb' = [kb EXCEPT !.knowledge =
                       save_knowledge(@, category, subject, content).rows]
          /\ klast' = Some([op |-> "save", category |-> category,
                            subject |-> subject, content |-> content,
                            result |-> [success |-> TRUE,
                                        knowledge_id |->
                                            save_knowledge(kb.knowledge, category,
                                                           subject, content).id]])
    /\ UNCHANGED <<today_events, prompt>>

\* DELETE /knowledge/{knowledge_id}.
DeleteKnowledge ==
    /\ prompt = None /\ KnowledgeOps < MaxKnowledgeOps
    /\ \E knowledge_id \in 1..(Len(kb.knowledge) + 1) :
          /\ kb' = [kb EXCEPT !.knowledge = delete_knowledge(@, knowledge_id).rows]
          /\ klast' = Some([op |-> "delete", knowledge_id |-> knowledge_id,
                            result |-> [success |->
                                delete_knowledge(kb.knowledge, knowledge_id).found]])
    /\ UNCHANGED <<today_events, prompt>>

\* The next system prompt is built.
BuildSystemPrompt ==
    /\ prompt = None
    /\ prompt' = Some(build_system_prompt_parts(kb, today_events))
    /\ UNCHANGED <<kb, today_events, klast>>

ContextNext ==
    \/ SaveKnowledge /\ UNCHANGED <<avars, ovars, dispatched, cvars, lvars>>
    \/ DeleteKnowledge /\ UNCHANGED <<avars, ovars, dispatched, cvars, lvars>>
    \/ BuildSystemPrompt /\ UNCHANGED <<avars, ovars, dispatched, cvars, lvars>>

ContextSpec == ContextInit /\ [][ContextNext]_vars

\* The headers among the parts of the prompt built.
PromptHeaders == { prompt[1][i].header : i \in 1..Len(prompt[1]) }

\* C26: every sub-block of the system instruction that has no data is left
\* out entirely: no calendar header without an active calendar, no schedule
\* header without an event today, as for instructions, knowledge and rules.
C26_EmptyBlocksOmitted ==
    prompt # None =>
        /\ Active(kb.instructions) = <<>> => "## Custom Instructions" \notin PromptHeaders
        /\ Active(kb.knowledge) = <<>> => "## What I Know About You" \notin PromptHeaders
        /\ Active(kb.rules) = <<>> => "## Scheduling Rules" \notin PromptHeaders
        /\ Active(kb.calendars) = <<>> =>
              PromptHeaders \cap {"## Calendars", "## Calendars I Have Access To"} = {}
        /\ (today_events = None \/ today_events = Some(<<>>)) =>
              "## Today's Schedule" \notin PromptHeaders

\* The lines of the knowledge sub-block among the parts of a prompt.
KnowledgeLines(parts) ==
    UNION { { parts[i].body[k] : k \in 1..Len(parts[i].body) } :
              i \in { j \in 1..Len(parts) : parts[j].header = "## What I Know About You" } }

\* Whether a prompt renders the content as the content of an entry.
Renders(parts, content) ==
    \E line \in KnowledgeLines(parts) : Len(line) = 3 /\ line[3] = content

\* C28: after save_knowledge returns success for (category, subject, content),
\* that content is part of the active knowledge base: the next system prompt
\* renders it and get_knowledge finds it, whatever save_knowledge and
\* delete_knowledge operations came before.
C28_SavedKnowledgeActive ==
    (klast # None /\ klast[1].op = "save" /\ klast[1].result.success) =>
        /\ \E i \in 1..Len(kb.knowledge) :
              /\ kb.knowledge[i].id = klast[1].result.knowledge_id
              /\ kb.knowledge[i].content = klast[1].content
              /\ kb.knowledge[i].active
        /\ Renders(build_system_prompt_parts(kb, today_events), klast[1].content)
        /\ prompt # None => Renders(prompt[1], klast[1].content)
        /\ \E i \in 1..Len(get_knowledge(kb.knowledge, klast[1].subject)) :
              get_knowledge(kb.knowledge, klast[1].subject)[i].content = klast[1].content

\* ---------------------------------------------------------------------
\* The title side effect of process_message
\* ---------------------------------------------------------------------

\* The title_update events emitted so far.
TitleUpdates == SelectSeq(events, LAMBDA e : e.type = "title_update")

\* What holds of the title call in every state: at most one call was made,
\* and after a failed one there is no title_update event, the title is
\* unset and the events end with complete.
TitleOnce ==
    /\ Len(title_calls) <= 1
    /\ title_calls = <<FALSE>> =>
          /\ TitleUpdates = <<>>
          /\ title = None
          /\ events # <<>> /\ events[Len(events)].type = "complete"
    /\ title_calls = <<TRUE>> => Len(TitleUpdates) = 1 /\ title # None

\* A step that makes the title call starts from a conversation without title.
TitleCallOnlyUntitled == title_calls' # title_calls => title = None

\* C31: the auxiliary title call is made at most once per request and only
\* when the conversation has no title; when it fails no title_update event
\* is emitted, the title stays unset and complete is still emitted.
C31_TitleOneShot == []TitleOnce /\ [][TitleCallOnlyUntitled]_vars

\* A finished request whose title call failed after a non-empty reply.
C31_Witness ==
    /\ opc = "done"
    /\ title_calls = <<FALSE>>
    /\ full_response # <<>>
    /\ events[Len(events)].type = "complete"

----------------------------------------------------------------------------
(* The desktop planner (src/app.py): dates.                                *)
(* A date is a record of year, month and day; day 0 of the timeline is     *)
(* Monday 2024-01-01, so that date.weekday() is the day number modulo 7.   *)

EpochYear == 2024

IsLeap(year) == (year % 4 = 0 /\ year % 100 # 0) \/ year % 400 = 0

DaysInMonth(year, month) ==
    IF month = 2 THEN (IF IsLeap(year) THEN 29 ELSE 28)
    ELSE IF month \in {4, 6, 9, 11} THEN 30
    ELSE 31

DaysInYear(year) == IF IsLeap(year) THEN 366 ELSE 365

RECURSIVE DaysBeforeYear(_)
DaysBeforeYear(year) ==
    IF year <= EpochYear THEN 0
    ELSE DaysBeforeYear(year - 1) + DaysInYear(year - 1)

RECURSIVE DaysBeforeMonth(_, _)
DaysBeforeMonth(year, month) ==
    IF month <= 1 THEN 0
    ELSE DaysBeforeMonth(year, month - 1) + DaysInMonth(year, month - 1)

Date(year, month, day) == [year |-> year, month |-> month, day |-> day]

\* date.toordinal(), counted from the first day of EpochYear.
toordinal(d) == DaysBeforeYear(d.year) + DaysBeforeMonth(d.year, d.month) + d.day - 1

RECURSIVE MonthOf(_, _, _)
MonthOf(year, month, n) ==
    IF n < DaysInMonth(year, month) THEN Date(year, month, n + 1)
    ELSE MonthOf(year, month + 1, n - DaysInMonth(year, month))

RECURSIVE YearOf(_, _)
YearOf(year, n) ==
    IF n < DaysInYear(year) THEN MonthOf(year, 1, n)
    ELSE YearOf(year + 1, n - DaysInYear(year))

\* date.fromordinal(n).
fromordinal(n) == YearOf(EpochYear, n)

\* date + timedelta(days=n).
AddDays(d, n) == fromordinal(toordinal(d) + n)

\* A datetime of the planner: a date with an hour and a minute.
DateTime(d, hour, minute) == [date |-> d, hour |-> hour, minute |-> minute]

\* The same time on the timeline in minutes.
Minutes(t) == At(toordinal(t.date), t.hour, t.minute)

\* now.replace(day=28) + timedelta(days=3).
next_month_three_days(now) == AddDays(Date(now.date.year, now.date.month, 28), 3)

\* infer_deadline: next_month = now.replace(day=28) + timedelta(days=4).
next_month_of(now) == AddDays(Date(now.date.year, now.date.month, 28), 4)

\* infer_deadline: last_day = next_month - timedelta(days=next_month.day), and
\* the datetime returned for it.
end_of_month(now) ==
    DateTime(AddDays(next_month_of(now), 0 - next_month_of(now).day), 23, 59)

----------------------------------------------------------------------------
(* The desktop planner: its parsers.  A text is the list of its lexemes:   *)
(* words, runs of digits and single signs, which the user separates by     *)
(* blanks or not ("8pm" is "8", "pm").                                     *)

DigitStrings == {"0", "00", "1", "8", "10", "17", "20", "30", "45"}

\* int() of a run of digits.
IntOfDigits(s) ==
    CASE s = "0" -> 0 [] s = "00" -> 0 [] s = "1" -> 1 [] s = "8" -> 8
      [] s = "10" -> 10 [] s = "17" -> 17 [] s = "20" -> 20 [] s = "30" -> 30
      [] s = "45" -> 45

\* The words that begin with a unit of hours, (h|hr|hrs|hour|hours), and with
\* a unit of minutes, (m|min|mins|minute|minutes): the patterns end with the
\* unit, so that any word that begins with "h" or with "m" matches.
StartsWithH == {"h", "hr", "hrs", "hour", "hours", "high"}

StartsWithM == {"m", "min", "mins", "minute", "minutes", "month", "medium", "med"}

\* The least index at which a lexeme of `firsts` is followed by one of the
\* kind `seconds` tells, or 0.
FirstPair(t, firsts, seconds) ==
    LET hits == { i \in 1..(Len(t) - 1) : t[i] \in firsts /\ t[i + 1] \in seconds }
    IN  IF hits = {} THEN 0 ELSE CHOOSE i \in hits : \A j \in hits : i <= j

\* parse_priority.
parse_priority(text) ==
    IF Lower(text) \in {<<"high">>, <<"h">>, <<"1">>} THEN Some("High")
    ELSE IF Lower(text) \in {<<"medium">>, <<"med">>, <<"m">>, <<"2">>} THEN Some("Medium")
    ELSE IF Lower(text) \in {<<"low">>, <<"l">>, <<"3">>} THEN Some("Low")
    ELSE None

\* parse_duration: hours, then minutes, then a bare number of minutes.
parse_duration(text) ==
    LET t == Lower(text)
        hour_match == FirstPair(t, DigitStrings, StartsWithH)
        min_match == FirstPair(t, DigitStrings, StartsWithM)
    IN  IF t = <<>> THEN None
        ELSE IF Contains(t, <<"guess">>) \/ Contains(t, <<"not", "sure">>)
                \/ Contains(t, <<"idk">>) THEN None
        ELSE IF hour_match # 0 THEN Some(IntOfDigits(t[hour_match]) * 60)
        ELSE IF min_match # 0 THEN Some(IntOfDigits(t[min_match]))
        ELSE IF Len(t) = 1 /\ t[1] \in DigitStrings THEN Some(IntOfDigits(t[1]))
        ELSE None

\* parse_yes_no.
parse_yes_no(text) ==
    IF Lower(text) \in {<<"yes">>, <<"y">>, <<"ok">>, <<"okay">>} THEN Some(TRUE)
    ELSE IF Lower(text) \in {<<"no">>, <<"n">>} THEN Some(FALSE)
    ELSE None

\* The way out of parse_time_hour: an hour or None, or a ValueError of int().
Hour(value) == [raised |-> FALSE, value |-> value]

ValueError == [raised |-> TRUE, value |-> None]

\* The hour parse_time_hour makes of the number and the suffix it matched.
hour_of(hour, suffix) ==
    LET h == IF suffix = "pm" /\ hour # 12 THEN hour + 12
             ELSE IF suffix = "am" /\ hour = 12 THEN 0
             ELSE IF suffix = "" /\ hour <= 12 THEN hour + 12
             ELSE hour
    IN  IF 0 <= h /\ h <= 23 THEN Hour(Some(h)) ELSE Hour(None)

\* Where re.search finds the number of a time in the text, or 0.  The
\* patterns are raw strings that spell \\d, so the number they look for is a
\* backslash followed by the letter d, once or twice.
time_match(t) == FirstPair(t, {"\\"}, {"d", "dd"})

\* parse_time_hour: hour = int(match.group(1)), with the suffix that follows.
parse_time_hour(text) ==
    LET t == Lower(text)
        at == time_match(t)
        group1 == <<t[at], t[at + 1]>>
        suffix == IF at + 3 <= Len(t) /\ t[at + 2] = "\\" /\ t[at + 3] \in {"am", "pm"}
                  THEN t[at + 3] ELSE ""
    IN  IF at = 0 THEN Hour(None)
        ELSE IF Len(group1) # 1 \/ group1[1] \notin DigitStrings THEN ValueError
        ELSE hour_of(IntOfDigits(group1[1]), suffix)

\* infer_deadline.
infer_deadline(text, now) ==
    IF Contains(Lower(text), <<"end", "of", "the", "month">>)
       \/ Contains(Lower(text), <<"end", "of", "month">>)
    THEN Some(end_of_month(now))
    ELSE None

----------------------------------------------------------------------------
(* The desktop planner: its slot search.                                   *)

WORKDAYS == {0, 1, 2, 3, 4}

APP_WORK_START_HOUR == 9

APP_WORK_END_HOUR == 17

APP_OUTSIDE_START_HOUR == 7

APP_OUTSIDE_END_HOUR == 21

SEARCH_DAYS_AHEAD == 14

\* within_working_hours of src/app.py: the window of `day`, or None.
app_within_working_hours(day, allow_outside, earliest_hour, latest_hour, deadline) ==
    LET base_start == IF allow_outside THEN APP_OUTSIDE_START_HOUR ELSE APP_WORK_START_HOUR
        base_end == IF allow_outside THEN APP_OUTSIDE_END_HOUR ELSE APP_WORK_END_HOUR
        start_hour == IF earliest_hour # None
                      THEN Max(base_start, earliest_hour[1]) ELSE base_start
        end_hour == IF latest_hour # None
                    THEN Min(base_end, latest_hour[1]) ELSE base_end
        start == At(day, start_hour, 0)
        end0 == At(day, end_hour, 0)
        end == IF deadline # None /\ day = DateOf(deadline[1])
               THEN Min(end0, deadline[1]) ELSE end0
    IN  IF ~allow_outside /\ (day % 7) \notin WORKDAYS THEN None
        ELSE IF start >= end THEN None
        ELSE Some(<<start, end>>)

\* The loop over the days of find_first_slot of src/app.py, from day_offset on.
RECURSIVE AppDayLoop(_, _, _, _, _, _, _, _, _)
AppDayLoop(busy, duration_min, start_at, days_ahead, allow_outside, earliest_hour, latest_hour, deadline, day_offset) ==
    LET today == DateOf(start_at)
        end_date == IF deadline # None
                    THEN Min(today + days_ahead, DateOf(deadline[1]))
                    ELSE today + days_ahead
        day == today + day_offset
        window == app_within_working_hours(day, allow_outside, earliest_hour,
                                           latest_hour, deadline)
        day_start == IF day = today THEN Max(window[1][1], start_at) ELSE window[1][1]
        day_end == window[1][2]
    IN  IF day_offset > days_ahead \/ day > end_date THEN None
        ELSE IF window = None \/ day_start >= day_end
        THEN AppDayLoop(busy, duration_min, start_at, days_ahead, allow_outside,
                        earliest_hour, latest_hour, deadline, day_offset + 1)
        ELSE LET sw == Sweep(day_busy_of(busy, day_start, day_end), day_start,
                             duration_min, <<>>, 1)
             IN  IF sw.returned THEN Some(sw.found[1])
                 ELSE IF day_end - sw.cursor >= duration_min
                 THEN Some(<<sw.cursor, sw.cursor + duration_min>>)
                 ELSE AppDayLoop(busy, duration_min, start_at, days_ahead,
                                 allow_outside, earliest_hour, latest_hour, deadline,
                                 day_offset + 1)

\* find_first_slot of src/app.py: the first slot as a pair, or None for
\* (None, None).
app_find_first_slot(busy, duration_min, start_at, days_ahead, allow_outside, earliest_hour, latest_hour, deadline) ==
    AppDayLoop(busy, duration_min, start_at, days_ahead, allow_outside, earliest_hour,
               latest_hour, deadline, 0)

\* fetch_busy of src/app.py on the calendars and the project calendar.
app_fetch_busy(others, project) == SortByStart(others \o project)

----------------------------------------------------------------------------
(* The desktop planner: its dialog machine.                                *)

MaxAppEvents == 1

\* Task().
NewTask ==
    [title |-> <<>>, priority |-> "", duration_minutes |-> None,
     allow_outside_hours |-> FALSE, earliest_hour |-> None, latest_hour |-> None,
     deadline |-> None, suggested |-> None]

\* AppState(), and what reset_flow leaves.
NewAppState == [stage |-> "await_task", task |-> NewTask]

\* PlannerApp.suggest_slot: the state and the message it leaves.
suggest_slot(task, now, others, project) ==
    LET found == app_find_first_slot(
                     app_fetch_busy(others, project), task.duration_minutes[1],
                     Minutes(now) + 5, SEARCH_DAYS_AHEAD, task.allow_outside_hours,
                     task.earliest_hour, task.latest_hour,
                     IF task.deadline = None THEN None
                     ELSE Some(Minutes(task.deadline[1])))
    IN  IF found = None
        THEN [state |-> [stage |-> "await_expand", task |-> task], msg |-> "no_slot"]
        ELSE [state |-> [stage |-> "await_confirm",
                         task |-> [task EXCEPT !.suggested = found]],
              msg |-> "suggest"]

\* What the user types.
UserTexts ==
    { <<"pay", "rent", "by", "end", "of", "the", "month">>,
      <<"gym", "after", "work", "45", "min">>,
      <<"High">>, <<"yes">>, <<"no">>,
      <<"10", "hours">>,
      <<"8", "pm">>, <<"17">>, <<"20", ":", "00">>,
      <<"\\", "d">>,
      <<"too", "late">> }

\* What gpt_guess_duration returns, between 15 and 240, or None when the
\* request raises.
Guesses == {None, Some(60)}

\* What datetime.now reads: days in a leap-year February, in a February of
\* 28 days, in months of 30 and of 31 days, and in December.
Clocks ==
    { DateTime(Date(2024, 2, 12), 10, 0),
      DateTime(Date(2025, 2, 28), 16, 30),
      DateTime(Date(2025, 4, 10), 10, 0),
      DateTime(Date(2024, 12, 31), 10, 0) }

\* The busy intervals of the calendars that are only read: the day of `now`
\* until 15:00.
AppBusyLists(now) ==
    { <<(<<At(toordinal(now.date), 9, 0), At(toordinal(now.date), 15, 0)>>)>> }

AppInit ==
    /\ app_clock \in Clocks
    /\ app_busy \in AppBusyLists(app_clock)
    /\ app_state = NewAppState
    /\ app_chat = "hello"
    /\ app_events = <<>>
    /\ AIdle /\ OIdle /\ CIdle /\ KIdle /\ dispatched = <<>>

\* The step of a handler that ends in `state` with the message `msg`.
Says(state, msg) ==
    /\ app_state' = state
    /\ app_chat' = msg

\* handle_input, stage await_task.
AwaitTask ==
    /\ app_state.stage = "await_task"
    /\ \E text \in UserTexts :
          LET after_work == Contains(Lower(text), <<"after", "work">>)
              initial_duration == parse_duration(text)
              task == [NewTask EXCEPT
                          !.title = text,
                          !.deadline = infer_deadline(text, app_clock),
                          !.allow_outside_hours = after_work,
                          !.earliest_hour = IF after_work THEN Some(APP_WORK_END_HOUR)
                                            ELSE None,
                          !.duration_minutes =
                              IF initial_duration # None /\ initial_duration[1] # 0
                              THEN initial_duration ELSE None]
          IN  Says([stage |-> "await_priority", task |-> task], "ask_priority")
    /\ UNCHANGED <<app_clock, app_busy, app_events>>

\* handle_input, stage await_priority.
AwaitPriority ==
    /\ app_state.stage = "await_priority"
    /\ \E text \in UserTexts :
          LET pr == parse_priority(text)
              task == [app_state.task EXCEPT !.priority = pr[1]]
          IN  IF pr = None THEN Says(app_state, "retry_priority")
              ELSE IF task.duration_minutes # None
              THEN Says([stage |-> "await_duration_confirm", task |-> task],
                        "confirm_duration")
              ELSE Says([stage |-> "await_duration", task |-> task], "ask_duration")
    /\ UNCHANGED <<app_clock, app_busy, app_events>>

\* handle_input, stage await_duration.
AwaitDuration ==
    /\ app_state.stage = "await_duration"
    /\ \E text \in UserTexts, guess \in Guesses :
          LET duration == parse_duration(text)
          IN  IF duration = None
              THEN IF guess = None THEN UNCHANGED <<app_state, app_chat>>
                   ELSE Says([stage |-> "await_duration_confirm",
                              task |-> [app_state.task EXCEPT
                                           !.duration_minutes = guess]],
                             "guess_duration")
              ELSE Says([stage |-> "await_outside",
                         task |-> [app_state.task EXCEPT !.duration_minutes = duration]],
                        "ask_outside")
    /\ UNCHANGED <<app_clock, app_busy, app_events>>

\* handle_input, stage await_duration_confirm.
AwaitDurationConfirm ==
    /\ app_state.stage = "await_duration_confirm"
    /\ \E text \in UserTexts :
          IF Lower(text) \in {<<"yes">>, <<"y">>, <<"ok">>, <<"okay">>}
          THEN IF app_state.task.allow_outside_hours
               THEN IF app_state.task.latest_hour = None
                    THEN Says([app_state EXCEPT !.stage = "await_latest_time"],
                              "ask_latest_time")
                    ELSE Says(suggest_slot(app_state.task, app_clock, app_busy,
                                           app_events).state,
                              suggest_slot(app_state.task, app_clock, app_busy,
                                           app_events).msg)
               ELSE Says([app_state EXCEPT !.stage = "await_outside"], "ask_outside")
          ELSE IF Lower(text) \in {<<"no">>, <<"n">>}
          THEN Says([app_state EXCEPT !.stage = "await_duration"], "ask_duration")
          ELSE Says(app_state, "retry_yes_no")
    /\ UNCHANGED <<app_clock, app_busy, app_events>>

\* handle_input, stage await_outside.
AwaitOutside ==
    /\ app_state.stage = "await_outside"
    /\ \E text \in UserTexts :
          LET yn == parse_yes_no(text)
              task == [app_state.task EXCEPT !.allow_outside_hours = ~yn[1]]
          IN  IF yn = None THEN Says(app_state, "retry_yes_no")
              ELSE IF task.allow_outside_hours /\ task.latest_hour = None
              THEN Says([stage |-> "await_latest_time", task |-> task],
                        "ask_latest_time")
              ELSE Says(suggest_slot(task, app_clock, app_busy, app_events).state,
                        suggest_slot(task, app_clock, app_busy, app_events).msg)
    /\ UNCHANGED <<app_clock, app_busy, app_events>>

\* The branch of handle_input for the stage await_latest_time: the state and
\* the message it leaves, or the exception of parse_time_hour.
on_latest_time(state, text, now, others, project) ==
    IF parse_time_hour(text).raised
    THEN [raised |-> TRUE, state |-> state, msg |-> ""]
    ELSE IF parse_time_hour(text).value = None
    THEN [raised |-> FALSE, state |-> state, msg |-> "retry_time"]
    ELSE [raised |-> FALSE,
          state |-> suggest_slot([state.task EXCEPT
                                     !.latest_hour = parse_time_hour(text).value],
                                 now, others, project).state,
          msg |-> suggest_slot([state.task EXCEPT
                                   !.latest_hour = parse_time_hour(text).value],
                               now, others, project).msg]

\* handle_input, stage await_latest_time.
AwaitLatestTime ==
    /\ app_state.stage = "await_latest_time"
    /\ \E text \in UserTexts :
          IF on_latest_time(app_state, text, app_clock, app_busy, app_events).raised
          THEN UNCHANGED <<app_state, app_chat>>
          ELSE Says(on_latest_time(app_state, text, app_clock, app_busy,
                                   app_events).state,
                    on_latest_time(app_state, text, app_clock, app_busy,
                                   app_events).msg)
    /\ UNCHANGED <<app_clock, app_busy, app_events>>

\* handle_input, stage await_expand.
AwaitExpand ==
    /\ app_state.stage = "await_expand"
    /\ \E text \in UserTexts :
          LET yn == parse_yes_no(text)
              task == [app_state.task EXCEPT !.allow_outside_hours = TRUE]
          IN  IF yn = None THEN Says(app_state, "retry_yes_no")
              ELSE IF yn[1]
              THEN Says(suggest_slot(task, app_clock, app_busy, app_events).state,
                        suggest_slot(task, app_clock, app_busy, app_events).msg)
              ELSE Says(NewAppState, "declined")
    /\ UNCHANGED <<app_clock, app_busy, app_events>>

\* handle_input, stage await_confirm, with create_event and reset_flow.
AwaitConfirm ==
    /\ app_state.stage = "await_confirm"
    /\ \E text \in UserTexts :
          IF Lower(text) \in {<<"yes">>, <<"y">>, <<"ok">>, <<"okay">>}
          THEN /\ Len(app_events) < MaxAppEvents
               /\ app_events' = Append(app_events, app_state.task.suggested[1])
               /\ Says(NewAppState, "done")
          ELSE /\ UNCHANGED app_events
               /\ IF Lower(text) \in {<<"no">>, <<"n">>}
                  THEN Says(NewAppState, "declined")
                  ELSE IF Contains(Lower(text), <<"too", "late">>)
                          \/ Contains(Lower(text), <<"earlier">>)
                  THEN Says([app_state EXCEPT !.stage = "await_latest_time"],
                            "ask_latest_time")
                  ELSE Says(app_state, "retry_yes_no")
    /\ UNCHANGED <<app_clock, app_busy>>

AppNext ==
    \/ AwaitTask /\ UNCHANGED <<avars, ovars, dispatched, cvars, kvars>>
    \/ AwaitPriority /\ UNCHANGED <<avars, ovars, dispatched, cvars, kvars>>
    \/ AwaitDuration /\ UNCHANGED <<avars, ovars, dispatched, cvars, kvars>>
    \/ AwaitDurationConfirm /\ UNCHANGED <<avars, ovars, dispatched, cvars, kvars>>
    \/ AwaitOutside /\ UNCHANGED <<avars, ovars, dispatched, cvars, kvars>>
    \/ AwaitLatestTime /\ UNCHANGED <<avars, ovars, dispatched, cvars, kvars>>
    \/ AwaitExpand /\ UNCHANGED <<avars, ovars, dispatched, cvars, kvars>>
    \/ AwaitConfirm /\ UNCHANGED <<avars, ovars, dispatched, cvars, kvars>>

AppSpec == AppInit /\ [][AppNext]_vars

----------------------------------------------------------------------------
(* The desktop planner: the deadline of a task, for every day of two years. *)

DeadlineYears == {2024, 2025}

\* Every day of the years, early and late in the day.
AllClocks ==
    { DateTime(Date(y, m, d), h[1], h[2]) :
        y \in DeadlineYears, m \in 1..12, d \in 1..31, h \in {<<0, 0>>, <<23, 58>>} }
    \ { c \in [date : [year : DeadlineYears, month : 1..12, day : 29..31],
               hour : {0, 23}, minute : {0, 58}] :
          c.date.day > DaysInMonth(c.date.year, c.date.month) }

DeadlineInit ==
    /\ app_clock \in AllClocks
    /\ app_busy = <<>>
    /\ app_state = NewAppState
    /\ app_chat = "hello"
    /\ app_events = <<>>
    /\ AIdle /\ OIdle /\ CIdle /\ KIdle /\ dispatched = <<>>

\* The first message of a dialog, on any day.
DeadlineNext == AwaitTask /\ UNCHANGED <<avars, ovars, dispatched, cvars, kvars>>

DeadlineSpec == DeadlineInit /\ [][DeadlineNext]_vars

\* C32: for every current date, December and a leap-year February included,
\* the deadline infer_deadline returns is 23:59 on the last calendar day of
\* the current month, in the same year: the day after it is the first of a
\* month.
C32_EndOfMonthDeadline ==
    app_state.task.deadline # None =>
        /\ app_state.task.deadline[1].hour = 23
        /\ app_state.task.deadline[1].minute = 59
        /\ app_state.task.deadline[1].date.year = app_clock.date.year
        /\ app_state.task.deadline[1].date.month = app_clock.date.month
        /\ app_state.task.deadline[1].date.day >= app_clock.date.day
        /\ AddDays(app_state.task.deadline[1].date, 1).day = 1

\* A task typed on a day of February 2024 whose deadline is February 29.
C32_Witness ==
    /\ app_clock.date.year = 2024 /\ app_clock.date.month = 2
    /\ app_state.task.deadline # None
    /\ app_state.task.deadline[1] = DateTime(Date(2024, 2, 29), 23, 59)

----------------------------------------------------------------------------
(* Properties of the dialog machine.                                       *)

\* The replies the question of await_latest_time asks for: "8pm", "17", "20:00".
TimeReplies == { <<"8", "pm">>, <<"17">>, <<"20", ":", "00">> }

\* C39: the stage await_latest_time is left on a valid time reply: on "8pm",
\* "17" or "20:00" handle_input stores latest_hour and runs suggest_slot, so
\* that the stage becomes await_confirm or await_expand.
C39_LatestTimeLeft ==
    app_state.stage = "await_latest_time" =>
        \A text \in TimeReplies :
            /\ ~on_latest_time(app_state, text, app_clock, app_busy, app_events).raised
            /\ on_latest_time(app_state, text, app_clock, app_busy,
                              app_events).state.task.latest_hour # None
            /\ on_latest_time(app_state, text, app_clock, app_busy,
                              app_events).state.stage
                   \in {"await_confirm", "await_expand"}

----------------------------------------------------------------------------
(* The first slot of the Availability Engine.                              *)

\* The times of the requests lie on a grid of a quarter of an hour, so that
\* the earliest start of a free interval lies on it too.
Grid == 15

\* The days find_available_slots searches.
SearchedDays(r) == DateOf(r.start_at)..end_date_of(r)

\* Whether [t, t + duration) lies in the work window of a searched day, at or
\* after the search floor, and meets no busy interval.
Feasible(r, t) ==
    /\ t >= r.start_at
    /\ DateOf(t) \in SearchedDays(r)
    /\ DateOf(t) <= DateOf(r.start_at) + r.days_ahead
    /\ LET w == within_working_hours(DateOf(t), r.allow_outside, r.earliest_hour,
                                     r.latest_hour, r.deadline,
                                     r.weekday0 - DateOf(r.start_at))
       IN  w # None /\ w[1][1] <= t /\ t + r.duration_minutes <= w[1][2]
    /\ \A i \in 1..Len(r.busy) :
          t + r.duration_minutes <= r.busy[i][1] \/ t >= r.busy[i][2]

\* The starts on the grid, within the hours a window can have, of the days
\* searched.
CandidateStarts(r) ==
    { d * MinutesPerDay + q * Grid :
        d \in SearchedDays(r),
        q \in ((EXTENDED_START_HOUR * 60) \div Grid)..((EXTENDED_END_HOUR * 60) \div Grid) }

\* Whether the first slot returned is feasible with no feasible start
\* before it, and the list is empty only when no start is feasible.
FirstSlotEarliest ==
    /\ slots # <<>> =>
          /\ Feasible(req, slots[1][1])
          /\ \A t \in CandidateStarts(req) : t < slots[1][1] => ~Feasible(req, t)
    /\ slots = <<>> => \A t \in CandidateStarts(req) : ~Feasible(req, t)

\* The same for the requests with a positive duration.
FirstSlotEarliestIfPositive ==
    (apc = "done" /\ req.duration_minutes > 0) => FirstSlotEarliest

\* C33: the first slot find_available_slots returns is the earliest feasible
\* one: it is feasible, no interval of the requested duration inside a work
\* window, at or after the search floor and clear of every busy interval,
\* starts earlier, and the list is not empty when such an interval exists in
\* the days searched.
C33_FirstSlotEarliest == apc = "done" => FirstSlotEarliest

----------------------------------------------------------------------------
(* The text of a request and the turn persisted for it.                    *)

\* The index of the last user turn of the store, or 0.
LastUserTurn ==
    LET users == { i \in 1..Len(db_messages) : db_messages[i].role = "user" }
    IN  IF users = {} THEN 0 ELSE CHOOSE i \in users : \A j \in users : j <= i

\* The turns persisted after the user turn of the request.
TurnsOfRequest == SubSeq(db_messages, LastUserTurn + 1, Len(db_messages))

\* C34: the full_response of the complete event is the in-order concatenation
\* of every text fragment emitted during the request, over all rounds and
\* with the fallback message; when that text is not empty exactly one
\* assistant turn with that text is persisted, and when it is empty none is.
C34_TextCompleteAndPersisted ==
    (opc = "done" /\ events # <<>> /\ events[Len(events)].type = "complete") =>
        /\ events[Len(events)].data = EmittedText(events)
        /\ EmittedText(events) # <<>> =>
              TurnsOfRequest = <<[role |-> "assistant",
                                  content |-> Joined(EmittedText(events))]>>
        /\ EmittedText(events) = <<>> => TurnsOfRequest = <<>>

\* A finished request whose text holds a fragment of the first round and the
\* fallback message of the recursion limit.
C34_Witness ==
    /\ opc = "done" /\ depth = MAX_DEPTH /\ FallbackEmitted
    /\ Len(EmittedText(events)) >= 2
    /\ events[Len(events)].type = "complete"
    /\ TurnsOfRequest # <<>>

----------------------------------------------------------------------------
(* The store after a failed update_todo.                                   *)

\* Every failed update_todo left the TodoItem rows of the store as they were
\* when it returned.
FailedUpdateKeepsRows ==
    \A k \in 1..Len(dispatched) :
        (dispatched[k].name = "update_todo" /\ ~dispatched[k].result.success) =>
            dispatched[k].store_after.todos = dispatched[k].store_before.todos

\* Whether an update_todo of the request has failed.
UpdateFailed ==
    \E k \in 1..Len(dispatched) :
        dispatched[k].name = "update_todo" /\ ~dispatched[k].result.success

\* After a failed update_todo, the commit of save_message and the commits of
\* the later calls that fail or that work on other tables change no field
\* of a row.
LaterCommitsKeepRows ==
    UpdateFailed =>
        /\ db_messages' # db_messages => todos' = todos
        /\ Len(dispatched') > Len(dispatched) =>
              LET d == dispatched'[Len(dispatched')]
              IN  (d.name \in {"add_instruction", "check_availability", "frobnicate"}
                   \/ ~d.result.success) => todos' = todos

\* C35: when update_todo returns success = false, no field of a to-do item is
\* changed in the store, also after the later commits of the same request on
\* the same session, such as the save_message commit of the assistant turn.
C35_FailedUpdateChangesNothing ==
    []FailedUpdateKeepsRows /\ [][LaterCommitsKeepRows]_vars

----------------------------------------------------------------------------
(* check_availability outside the work hours.                              *)

\* The hours of a search that is not held to the work hours: no bound of its
\* own, so that within_working_hours applies its extended window.
ExtendedHours == [earliest_hour |-> None, latest_hour |-> None, allow_outside |-> TRUE]

\* C36: a check_availability call with allow_outside_hours = true and no
\* time_preference searches the extended day window instead of the work
\* hours: its result is the one of the search over the extended window.
C36_OutsideHoursWidens ==
    \A i \in 1..Len(dispatched) :
        LET d == dispatched[i]
        IN  (/\ d.name = "check_availability"
             /\ Get(d.arguments, "allow_outside_hours", FALSE)
             /\ "time_preference" \notin DOMAIN d.arguments
             /\ ~d.raised) =>
                d.result = check_availability_result(find_available_slots(
                               availability_request(
                                   DispatchBusy, DispatchNow, d.arguments,
                                   check_availability_start_at(
                                       Get(d.arguments, "date_preference", <<>>),
                                       DispatchNow),
                                   ExtendedHours)))

----------------------------------------------------------------------------
(* "next week" in check_availability and in add_todo, on every weekday.    *)

\* Calls in one run.
MaxWeekCalls == 2

\* The clocks: 09:25 on each day of a week; day 0 is a Monday.
WeekNows == { At(d, 9, 25) : d \in 0..6 }

\* Argument maps with and without "next week".
WeekAvailabilityCalls ==
    { [date_preference |-> <<"next", "week">>],
      [duration_minutes |-> 60, date_preference |-> <<"early", "next", "week">>],
      [duration_minutes |-> 60] }

WeekTodoCalls ==
    { [title |-> "buy milk", start_date |-> DateStr(<<"next", "week">>)],
      [title |-> "buy milk", start_date |-> DateStr(<<"today">>),
       due_date |-> DateStr(<<"next", "week">>)] }

\* The record of one call at the clock `now`, given its outcome `ex`.
DispatchedAt(name, arguments, now, ex) ==
    /\ instructions' = ex.store.instructions
    /\ todos' = ex.store.todos
    /\ pending' = ex.store.pending
    /\ dispatched' = Append(dispatched,
           [name |-> name, arguments |-> arguments, fault |-> None, now |-> now,
            raised |-> ex.raised, result |-> ex.result,
            store_before |-> Store, store_after |-> ex.store])
    /\ UNCHANGED <<avars, db_messages, title, run_vars, hist_vars, cvars, kvars,
                   lvars>>

\* execute_function for check_availability, on a free calendar.
CheckAvailabilityOn ==
    /\ Len(dispatched) < MaxWeekCalls
    /\ \E now \in WeekNows, arguments \in WeekAvailabilityCalls :
          DispatchedAt("check_availability", arguments, now,
                       Outcome(check_availability_at(<<>>, now, arguments, Store, None)))

\* execute_function for add_todo.
AddTodoOn ==
    /\ Len(dispatched) < MaxWeekCalls
    /\ \E now \in WeekNows, arguments \in WeekTodoCalls :
          DispatchedAt("add_todo", arguments, now,
                       Outcome(add_todo_at(arguments, Store, None, now)))

WeekNext == CheckAvailabilityOn \/ AddTodoOn

WeekSpec == DispatchInit /\ [][WeekNext]_vars

\* The search of check_availability from the first Monday after today on.
FromFirstMonday(d) ==
    check_availability_result(find_available_slots(
        availability_request(
            <<>>, d.now, d.arguments,
            Some(MidnightOn(d.now, next_week_days_first_monday(d.now))),
            check_availability_hours(Get(d.arguments, "time_preference", <<>>),
                                     Get(d.arguments, "allow_outside_hours", FALSE)))))

\* The todo a call added.
AddedTodo(d) == d.store_after.todos[Len(d.store_after.todos)]

\* C37: on every weekday, "next week" is the first Monday strictly after
\* today: check_availability searches from that Monday's midnight on, and
\* add_todo stores that Monday at 09:00 for start_date and for due_date.
C37_NextWeekIsNextMonday ==
    \A i \in 1..Len(dispatched) :
        LET d == dispatched[i]
        IN  /\ (/\ d.name = "check_availability"
                /\ Contains(Get(d.arguments, "date_preference", <<>>), <<"next", "week">>))
               => d.result = FromFirstMonday(d)
            /\ (d.name = "add_todo" /\ ~d.raised) =>
                  \A f \in {"start_date", "due_date"} :
                      (/\ f \in DOMAIN d.arguments
                       /\ Contains(d.arguments[f].words, <<"next", "week">>))
                      => AddedTodo(d)[f] =
                             Some(At(DateOf(d.now) + next_week_days_first_monday(d.now), 9, 0))

----------------------------------------------------------------------------
(* The calendar table and schedule_task: add_calendar, remove_calendar and *)
(* schedule_task through execute_function, in any order.                   *)

\* Calls in one run.
MaxCalendarCalls == 4

\* str(RuntimeError("No writable calendar configured")) holds none of the
\* handler's keywords.
RuntimeErrorText == {}

\* str(ValueError) of fromisoformat holds none of them.
ValueErrorText == {}

\* The tables and the Google account the three tools work on.
CalendarStore ==
    [calendars |-> kb.calendars, task_history |-> kb.task_history, events |-> calendar]

\* KnowledgeService.add_calendar: a new row, active by the column default.
add_calendar(calendars, name, google_calendar_id, permission) ==
    Append(calendars,
           [id |-> Len(calendars) + 1, name |-> name,
            google_calendar_id |-> google_calendar_id,
            permission |-> permission, active |-> TRUE])

\* KnowledgeService.remove_calendar: the soft delete of the row, if any.
remove_calendar(calendars, calendar_id) ==
    [rows |-> [i \in 1..Len(calendars) |->
                  IF calendars[i].id = calendar_id
                  THEN [calendars[i] EXCEPT !.active = FALSE]
                  ELSE calendars[i]],
     found |-> \E i \in 1..Len(calendars) : calendars[i].id = calendar_id]

\* A query of the calendar rows that leaves the removed ones in.
get_all_rows(calendars) == calendars

\* CalendarService.get_active_calendars.
get_active_calendars(calendars) == SelectSeq(calendars, LAMBDA cal : cal.active)

\* The first calendar with permission read_write in a list of rows, or None.
first_writable(rows) ==
    IF \E i \in 1..Len(rows) : rows[i].permission = "read_write"
    THEN Some(rows[CHOOSE i \in 1..Len(rows) :
                       /\ rows[i].permission = "read_write"
                       /\ \A j \in 1..(i - 1) : rows[j].permission # "read_write"]
                  .google_calendar_id)
    ELSE None

\* CalendarService.get_calendar_ids.
get_calendar_ids(calendars) ==
    [read_ids |-> [i \in 1..Len(get_active_calendars(calendars)) |->
                      get_active_calendars(calendars)[i].google_calendar_id],
     write_id |-> first_writable(get_active_calendars(calendars))]

\* MemoryService.add_task_history.
add_task_history(task_history, task_title, duration_minutes, scheduled_at, google_event_id) ==
    Append(task_history,
           [title |-> task_title, duration_minutes |-> duration_minutes,
            scheduled_at |-> scheduled_at, google_event_id |-> google_event_id])

\* The branch of add_calendar.
add_calendar_tool(arguments, store) ==
    IF {"name", "google_calendar_id"} \ DOMAIN arguments # {}
    THEN Raise(KeyErrorText, store)
    ELSE Return([success |-> TRUE, message |-> <<"Added calendar", arguments.name>>,
                 calendar_id |-> Len(store.calendars) + 1],
                [store EXCEPT !.calendars =
                    add_calendar(@, arguments.name, arguments.google_calendar_id,
                                 Get(arguments, "permission", "read"))])

\* The branch of remove_calendar.
remove_calendar_tool(arguments, store) ==
    IF "calendar_id" \notin DOMAIN arguments THEN Raise(KeyErrorText, store)
    ELSE Return([success |-> remove_calendar(store.calendars, arguments.calendar_id).found,
                 message |-> IF remove_calendar(store.calendars,
                                                arguments.calendar_id).found
                             THEN "Calendar removed" ELSE "Calendar not found"],
                [store EXCEPT !.calendars =
                    remove_calendar(@, arguments.calendar_id).rows])

\* The branch of schedule_task with CalendarService.create_event: `fault` is
\* None, or the place and the text of a failure of the Google API ("insert")
\* or of the database ("history").
schedule_task_tool(arguments, store, fault) ==
    IF {"title", "start_time", "duration_minutes"} \ DOMAIN arguments # {}
    THEN Raise(KeyErrorText, store)
    ELSE IF arguments.start_time.iso = None THEN Raise(ValueErrorText, store)
    ELSE IF get_calendar_ids(store.calendars).write_id = None
    THEN Raise(RuntimeErrorText, store)
    ELSE IF fault # None /\ fault[1].at = "insert" THEN Raise(fault[1].text, store)
    ELSE LET created ==
                 [id |-> Len(store.events) + 1,
                  calendarId |-> get_calendar_ids(store.calendars).write_id[1],
                  summary |-> arguments.title,
                  start |-> arguments.start_time.iso[1],
                  end |-> arguments.start_time.iso[1] + arguments.duration_minutes]
         IN  IF fault # None
             THEN Raise(fault[1].text, [store EXCEPT !.events = Append(@, created)])
             ELSE Return([success |-> TRUE,
                          message |-> <<"Scheduled", arguments.title>>,
                          event_id |-> created.id],
                         [store EXCEPT
                             !.events = Append(@, created),
                             !.task_history =
                                 add_task_history(@, arguments.title,
                                                  arguments.duration_minutes,
                                                  arguments.start_time.iso[1],
                                                  created.id)])

\* Argument maps of the three tools.
AddCalendarCalls ==
    { [name |-> "Work", google_calendar_id |-> "work", permission |-> "read_write"],
      [name |-> "Home", google_calendar_id |-> "home", permission |-> "read_write"],
      [name |-> "Home", google_calendar_id |-> "home"] }

ScheduleTaskCalls ==
    { [title |-> "write report", start_time |-> IsoDate(At(1, 10, 0)),
       duration_minutes |-> 60],
      [title |-> "write report", start_time |-> DateStr(<<"tomorrow">>),
       duration_minutes |-> 60] }

ScheduleFaults ==
    { None, Some([at |-> "insert", text |-> {"quota"}]),
      Some([at |-> "history", text |-> {}]) }

\* The tables and the record of one call, given its outcome `ex`.
CalendarDispatched(name, arguments, fault, ex) ==
    /\ kb' = [calendars |-> ex.store.calendars, task_history |-> ex.store.task_history]
    /\ calendar' = ex.store.events
    /\ dispatched' = Append(dispatched,
           [name |-> name, arguments |-> arguments, fault |-> fault,
            raised |-> ex.raised, result |-> ex.result,
            store_before |-> CalendarStore, store_after |-> ex.store])
    /\ UNCHANGED <<avars, ovars, rpc, offered, booked, today_events, prompt, klast,
                   lvars>>

AddCalendarCall ==
    /\ Len(dispatched) < MaxCalendarCalls
    /\ \E arguments \in AddCalendarCalls :
          CalendarDispatched("add_calendar", arguments, None,
                             Outcome(add_calendar_tool(arguments, CalendarStore)))

RemoveCalendarCall ==
    /\ Len(dispatched) < MaxCalendarCalls
    /\ \E calendar_id \in 1..(Len(kb.calendars) + 1) :
          CalendarDispatched("remove_calendar", [calendar_id |-> calendar_id], None,
                             Outcome(remove_calendar_tool([calendar_id |-> calendar_id],
                                                          CalendarStore)))

ScheduleTaskCall ==
    /\ Len(dispatched) < MaxCalendarCalls
    /\ \E arguments \in ScheduleTaskCalls, fault \in ScheduleFaults :
          CalendarDispatched("schedule_task", arguments, fault,
                             Outcome(schedule_task_tool(arguments, CalendarStore, fault)))

CalendarInit ==
    /\ kb = [calendars |-> <<>>, task_history |-> <<>>]
    /\ calendar = <<>>
    /\ dispatched = <<>>
    /\ rpc = <<>> /\ offered = <<>> /\ booked = <<>>
    /\ today_events = <<>> /\ prompt = <<>> /\ klast = <<>>
    /\ AIdle /\ OIdle /\ LIdle

CalendarNext == AddCalendarCall \/ RemoveCalendarCall \/ ScheduleTaskCall

CalendarSpec == CalendarInit /\ [][CalendarNext]_vars

\* Whether a calendar row is active and writable.
Writable(cal) == cal.active /\ cal.permission = "read_write"

\* The events a call created.
CreatedBy(d) ==
    SubSeq(d.store_after.events, Len(d.store_before.events) + 1,
           Len(d.store_after.events))

\* C38: whatever add_calendar, remove_calendar and schedule_task calls came
\* before, every event a schedule_task call creates is on the Google calendar
\* of a row that is active with permission read_write when the call is made;
\* with no such row the call returns success = false and adds neither an
\* event nor a task-history row.
C38_ScheduleOnlyOnWritable ==
    \A i \in 1..Len(dispatched) :
        LET d == dispatched[i]
        IN  d.name = "schedule_task" =>
              /\ \A k \in 1..Len(CreatedBy(d)) :
                    \E c \in 1..Len(d.store_before.calendars) :
                        /\ Writable(d.store_before.calendars[c])
                        /\ d.store_before.calendars[c].google_calendar_id
                               = CreatedBy(d)[k].calendarId
              /\ (\A c \in 1..Len(d.store_before.calendars) :
                      ~Writable(d.store_before.calendars[c])) =>
                    /\ d.result.success = FALSE
                    /\ d.store_after.events = d.store_before.events
                    /\ d.store_after.task_history = d.store_before.task_history

\* A writable calendar was added and removed, the schedule_task call after
\* that failed without a fault of a collaborator, and an earlier call had
\* created an event on the calendar while it was writable.
C38_Witness ==
    \E i \in 1..Len(dispatched) :
        /\ dispatched[i].name = "schedule_task"
        /\ dispatched[i].fault = None
        /\ dispatched[i].arguments.start_time.iso # None
        /\ dispatched[i].result.success = FALSE
        /\ \E c \in 1..Len(dispatched[i].store_before.calendars) :
              /\ ~dispatched[i].store_before.calendars[c].active
              /\ dispatched[i].store_before.calendars[c].permission = "read_write"
        /\ Len(dispatched[i].store_before.events) = 1

----------------------------------------------------------------------------
(* find_available_slots for growing num_slots, and find_first_slot.        *)

\* The largest num_slots asked for.
MaxPrefixSlots == 3

\* The calls: days with several gaps, one or two days, with and without a
\* deadline, with num_slots from 1 on.
PrefixRequests ==
    [ busy : BusyLists,
      duration_minutes : Durations,
      start_at : {At(0, 9, 30), At(1, 10, 0)},
      days_ahead : 0..MaxDaysAhead,
      allow_outside : BOOLEAN,
      earliest_hour : {None, Some(10)},
      latest_hour : {None},
      deadline : {None, Some(At(0, 12, 0))},
      num_slots : 1..MaxPrefixSlots,
      weekday0 : {4} ]

\* A pair of Optional[datetime]: a slot, or (None, None).
OptionalPair(found) ==
    IF found # <<>> THEN <<Some(found[1][1]), Some(found[1][2])>> ELSE <<None, None>>

\* find_first_slot that does not hand the deadline on.
find_first_slot_without_deadline(r) ==
    OptionalPair(find_available_slots([r EXCEPT !.num_slots = 1, !.deadline = None]))

\* CalendarService.find_first_slot: find_available_slots with num_slots = 1,
\* then slots[0], or (None, None).
find_first_slot(r) == OptionalPair(find_available_slots([r EXCEPT !.num_slots = 1]))

PrefixInit ==
    /\ req \in PrefixRequests
    /\ slots = <<>>
    /\ first_slot = <<>>
    /\ apc = "call"
    /\ OIdle /\ DIdle

\* find_first_slot with the arguments of the find_available_slots call.
FindFirstSlot ==
    /\ apc = "done"
    /\ first_slot' = find_first_slot(req)
    /\ apc' = "first"
    /\ UNCHANGED <<req, slots, ovars, dvars>>

\* The find_available_slots call, then the find_first_slot call.
PrefixNext == SlotNext \/ FindFirstSlot

PrefixSpec == PrefixInit /\ [][PrefixNext]_vars

\* Whether the list s is the beginning of the list t.
IsPrefix(s, t) == Len(s) <= Len(t) /\ SubSeq(t, 1, Len(s)) = s

\* C40: for num_slots = N >= 1 the list find_available_slots returns is a
\* prefix of the list it returns for N + 1 on the same inputs, and
\* find_first_slot returns the first element of that list, or (None, None)
\* when the list is empty.
C40_PrefixAndFirst ==
    /\ (apc \in {"done", "first"} /\ req.num_slots >= 1) =>
          IsPrefix(slots, find_available_slots([req EXCEPT !.num_slots = @ + 1]))
    /\ apc = "first" =>
          first_slot = IF slots = <<>> THEN <<None, None>>
                       ELSE <<Some(slots[1][1]), Some(slots[1][2])>>

\* A call with N >= 2 that found N slots where N + 1 finds one more, on a
\* request with a deadline, and find_first_slot returned the first of them.
C40_Witness ==
    /\ apc = "first" /\ req.num_slots >= 2 /\ req.deadline # None
    /\ Len(slots) = req.num_slots
    /\ Len(find_available_slots([req EXCEPT !.num_slots = @ + 1])) = req.num_slots + 1
    /\ first_slot = <<Some(slots[1][1]), Some(slots[1][2])>>

====
